---- MODULE Spec2Model ----
\* The AST core of src/core/ast.cpp: the double-dispatch visitor protocol
\* (AST_<kind>::accept and accept_stmt) over a heap of nodes, and the operator
\* resolver (getOpSymbol, getOpName and the names derived from it).
EXTENDS Integers, Sequences, FiniteSets, TLC

VARIABLES
    ast,        \* the heap: node id -> node record (kind and child fields)
    root,       \* the node accept / accept_stmt is called on
    skipNodes,  \* the stub visitor: the nodes whose handler returns true
    pc,         \* "idle" before the call, "done" after it returned
    trace,      \* the calls made, in order: accept entries and handler calls
    op_type,    \* the operator tag of the last resolver call
    called,     \* the resolver function last called ("" before any call)
    result,     \* what that call returned, or that it aborted the process
    success,    \* the out-parameter of getReverseCmpOp
    initialized,\* getOpName's static flag
    strSlot,    \* getOpName's static name slots, tag -> name (<<>> while unset)
    ndebug,     \* whether the build compiles assert() away
    thr,        \* the threads inside getOpName: thread -> [pc, op, next, ret]
    roots,      \* flatten's roots argument
    output,     \* flatten's output vector
    output_in,  \* what the output vector held when flatten was called
    expand_scopes, \* flatten's expand_scopes argument
    stream,     \* ASTPrintVisitor's output stream, a sequence of characters
    indent,     \* ASTPrintVisitor's indentation level
    levels      \* every value the indentation level took, in order

vars == <<ast, root, skipNodes, pc, trace,
          op_type, called, result, success, initialized, strSlot, ndebug,
          thr, roots, output, output_in, expand_scopes,
          stream, indent, levels>>

astVars == <<ast, root, skipNodes, pc, trace>>
opVars == <<op_type, called, result, success, initialized, strSlot, ndebug>>
thrVars == <<thr>>
flatVars == <<roots, output, output_in, expand_scopes>>
printVars == <<stream, indent, levels>>

\* The longest child vector of a generated tree.
MaxLen == 2

\* A null child pointer.
NULL == 0

\* The closed set of node kinds: one per AST_<kind>::accept.
Kinds ==
    {"alias", "arguments", "Assert", "Assign", "AugAssign", "AugBinOp",
     "Attribute", "BinOp", "BoolOp", "Break", "Call", "Compare",
     "comprehension", "ClassDef", "Continue", "Delete", "Dict", "DictComp",
     "Ellipsis", "ExceptHandler", "Exec", "Expr", "ExtSlice", "For",
     "FunctionDef", "GeneratorExp", "Global", "If", "IfExp", "Import",
     "ImportFrom", "Index", "Invoke", "keyword", "Lambda", "LangPrimitive",
     "List", "ListComp", "Module", "Expression", "Suite", "Name",
     "Num", "Pass", "Print", "Raise", "Repr", "Return",
     "Set", "SetComp", "Slice", "Str", "Subscript", "TryExcept",
     "TryFinally", "Tuple", "UnaryOp", "While", "With", "Yield",
     "ClsAttribute"}

\* The node-valued fields of each kind, in alphabetical order: "one" is a
\* required child, "opt" a pointer that may be null, "list" a vector.
Schema(kind) ==
    CASE kind = "alias" -> <<>>
      [] kind = "arguments" -> <<<<"args", "list">>, <<"defaults", "list">>, <<"kwarg", "opt">>, <<"vararg", "opt">>>>
      [] kind = "Assert" -> <<<<"msg", "opt">>, <<"test", "one">>>>
      [] kind = "Assign" -> <<<<"targets", "list">>, <<"value", "one">>>>
      [] kind = "AugAssign" -> <<<<"target", "one">>, <<"value", "one">>>>
      [] kind = "AugBinOp" -> <<<<"left", "one">>, <<"right", "one">>>>
      [] kind = "Attribute" -> <<<<"value", "one">>>>
      [] kind = "BinOp" -> <<<<"left", "one">>, <<"right", "one">>>>
      [] kind = "BoolOp" -> <<<<"values", "list">>>>
      [] kind = "Break" -> <<>>
      [] kind = "Call" -> <<<<"args", "list">>, <<"func", "one">>, <<"keywords", "list">>, <<"kwargs", "opt">>, <<"starargs", "opt">>>>
      [] kind = "Compare" -> <<<<"comparators", "list">>, <<"left", "one">>>>
      [] kind = "comprehension" -> <<<<"ifs", "list">>, <<"iter", "one">>, <<"target", "one">>>>
      [] kind = "ClassDef" -> <<<<"bases", "list">>, <<"body", "list">>, <<"decorator_list", "list">>>>
      [] kind = "Continue" -> <<>>
      [] kind = "Delete" -> <<<<"targets", "list">>>>
      [] kind = "Dict" -> <<<<"keys", "list">>, <<"values", "list">>>>
      [] kind = "DictComp" -> <<<<"generators", "list">>, <<"key", "one">>, <<"value", "one">>>>
      [] kind = "Ellipsis" -> <<>>
      [] kind = "ExceptHandler" -> <<<<"body", "list">>, <<"name", "opt">>, <<"type", "opt">>>>
      [] kind = "Exec" -> <<<<"body", "opt">>, <<"globals", "opt">>, <<"locals", "opt">>>>
      [] kind = "Expr" -> <<<<"value", "one">>>>
      [] kind = "ExtSlice" -> <<<<"dims", "list">>>>
      [] kind = "For" -> <<<<"body", "list">>, <<"iter", "one">>, <<"orelse", "list">>, <<"target", "one">>>>
      [] kind = "FunctionDef" -> <<<<"args", "one">>, <<"body", "list">>, <<"decorator_list", "list">>>>
      [] kind = "GeneratorExp" -> <<<<"elt", "one">>, <<"generators", "list">>>>
      [] kind = "Global" -> <<>>
      [] kind = "If" -> <<<<"body", "list">>, <<"orelse", "list">>, <<"test", "one">>>>
      [] kind = "IfExp" -> <<<<"body", "one">>, <<"orelse", "one">>, <<"test", "one">>>>
      [] kind = "Import" -> <<<<"names", "list">>>>
      [] kind = "ImportFrom" -> <<<<"names", "list">>>>
      [] kind = "Index" -> <<<<"value", "one">>>>
      [] kind = "Invoke" -> <<<<"stmt", "one">>>>
      [] kind = "keyword" -> <<<<"value", "one">>>>
      [] kind = "Lambda" -> <<<<"args", "one">>, <<"body", "one">>>>
      [] kind = "LangPrimitive" -> <<<<"args", "list">>>>
      [] kind = "List" -> <<<<"elts", "list">>>>
      [] kind = "ListComp" -> <<<<"elt", "one">>, <<"generators", "list">>>>
      [] kind = "Module" -> <<<<"body", "list">>>>
      [] kind = "Expression" -> <<<<"body", "one">>>>
      [] kind = "Suite" -> <<<<"body", "list">>>>
      [] kind = "Name" -> <<>>
      [] kind = "Num" -> <<>>
      [] kind = "Pass" -> <<>>
      [] kind = "Print" -> <<<<"dest", "opt">>, <<"values", "list">>>>
      [] kind = "Raise" -> <<<<"arg0", "opt">>, <<"arg1", "opt">>, <<"arg2", "opt">>>>
      [] kind = "Repr" -> <<<<"value", "one">>>>
      [] kind = "Return" -> <<<<"value", "opt">>>>
      [] kind = "Set" -> <<<<"elts", "list">>>>
      [] kind = "SetComp" -> <<<<"elt", "one">>, <<"generators", "list">>>>
      [] kind = "Slice" -> <<<<"lower", "opt">>, <<"step", "opt">>, <<"upper", "opt">>>>
      [] kind = "Str" -> <<>>
      [] kind = "Subscript" -> <<<<"slice", "one">>, <<"value", "one">>>>
      [] kind = "TryExcept" -> <<<<"body", "list">>, <<"handlers", "list">>, <<"orelse", "list">>>>
      [] kind = "TryFinally" -> <<<<"body", "list">>, <<"finalbody", "list">>>>
      [] kind = "Tuple" -> <<<<"elts", "list">>>>
      [] kind = "UnaryOp" -> <<<<"operand", "one">>>>
      [] kind = "While" -> <<<<"body", "list">>, <<"orelse", "list">>, <<"test", "one">>>>
      [] kind = "With" -> <<<<"body", "list">>, <<"context_expr", "one">>, <<"optional_vars", "opt">>>>
      [] kind = "Yield" -> <<<<"value", "opt">>>>
      [] kind = "ClsAttribute" -> <<<<"value", "one">>>>

(***************************************************************************)
(* Trees.  A tree is a root of any kind whose vectors have 0..MaxLen       *)
(* elements and whose optional children are present or null; every child   *)
(* is a leaf (Name) or a BinOp over two leaves.  Ids are given out field   *)
(* by field in Schema order, so they say nothing about the visiting order. *)
(***************************************************************************)
FieldNames(kind) == {Schema(kind)[i][1] : i \in 1..Len(Schema(kind))}

FieldType(kind, f) ==
    LET i == CHOOSE j \in 1..Len(Schema(kind)) : Schema(kind)[j][1] = f
    IN  Schema(kind)[i][2]

ListFields(kind) == {f \in FieldNames(kind) : FieldType(kind, f) = "list"}
OptFields(kind) == {f \in FieldNames(kind) : FieldType(kind, f) = "opt"}

\* How many children field i of the schema holds under a shape.
FieldCount(kind, lens, present, i) ==
    LET f == Schema(kind)[i][1]
        t == Schema(kind)[i][2]
    IN  IF t = "one" THEN 1
        ELSE IF t = "opt" THEN (IF f \in present THEN 1 ELSE 0)
        ELSE lens[f]

RECURSIVE FieldsBefore(_, _, _, _)
FieldsBefore(kind, lens, present, i) ==
    IF i <= 1 THEN 0
    ELSE FieldsBefore(kind, lens, present, i - 1)
         + FieldCount(kind, lens, present, i - 1)

NumChildren(kind, lens, present) ==
    FieldsBefore(kind, lens, present, Len(Schema(kind)) + 1)

\* The value of field f of a node whose first child gets id base + 1.
FieldValue(kind, lens, present, base, f) ==
    LET i == CHOOSE j \in 1..Len(Schema(kind)) : Schema(kind)[j][1] = f
        t == Schema(kind)[i][2]
        first == base + FieldsBefore(kind, lens, present, i) + 1
    IN  IF t = "one" THEN first
        ELSE IF t = "opt" THEN (IF f \in present THEN first ELSE NULL)
        ELSE [k \in 1..lens[f] |-> first + k - 1]

MakeNode(kind, lens, present, base) ==
    [f \in FieldNames(kind) \cup {"kind"} |->
        IF f = "kind" THEN kind
        ELSE FieldValue(kind, lens, present, base, f)]

ChildKinds == {"Name", "BinOp"}

\* The heap of a tree: the root is node 1, its children 2..1+nc, and the two
\* operands of child j (when the children are BinOps) follow in pairs.
MakeTree(kind, lens, present, childKind) ==
    LET nc == NumChildren(kind, lens, present)
        n == IF childKind = "Name" THEN 1 + nc ELSE 1 + 3 * nc
    IN  [id \in 1..n |->
            IF id = 1 THEN MakeNode(kind, lens, present, 1)
            ELSE IF id <= 1 + nc /\ childKind # "Name"
                 THEN [kind |-> childKind,
                       left |-> 1 + nc + 2 * (id - 1) - 1,
                       right |-> 1 + nc + 2 * (id - 1)]
            ELSE [kind |-> "Name"]]

\* AST_Dict keeps keys and values in step: values[i] belongs to keys[i].
WellFormed(kind, lens) ==
    kind = "Dict" => lens["keys"] = lens["values"]

Trees ==
    UNION {UNION {{MakeTree(kind, lens, present, ck) :
                      present \in SUBSET OptFields(kind), ck \in ChildKinds} :
                  lens \in {l \in [ListFields(kind) -> 0..MaxLen] :
                               WellFormed(kind, l)}} :
           kind \in Kinds}

Nodes == DOMAIN ast

\* The children a node owns, read from its fields alone.
ChildSet(id) ==
    LET n == ast[id]
    IN  UNION {IF FieldType(n.kind, f) = "list"
               THEN {n[f][k] : k \in 1..Len(n[f])}
               ELSE {n[f]} \ {NULL} : f \in FieldNames(n.kind)}

RECURSIVE Descendants(_)
Descendants(id) ==
    ChildSet(id) \cup UNION {Descendants(c) : c \in ChildSet(id)}

\* The stub visitors tried on a tree: the handlers of a set of nodes return
\* true and all others false.  The sets are none, all, each single node and
\* all the nodes of one kind.
StubVisitors(heap) ==
    {{}, DOMAIN heap}
    \cup {{id} : id \in DOMAIN heap}
    \cup {{id \in DOMAIN heap : heap[id].kind = k} : k \in Kinds}

(***************************************************************************)
(* The visitor protocol.                                                   *)
(***************************************************************************)
\* A faulty visitVector whose loop stops one element short.
visitVector_stopsEarly(vec) == [i \in 1..(Len(vec) - 1) |-> vec[i]]

\* visitVector: accept on vec[0], vec[1], ... in index order.
visitVector(vec) == [i \in 1..Len(vec) |-> vec[i]]

\* if (child) child->accept(v);
OptChild(child) == IF child = NULL THEN <<>> ELSE <<child>>

\* AST_Dict's loop: keys[i] then values[i], for each i in order.
zipKeysValues(keys, values) ==
    [i \in 1..(2 * Len(keys)) |->
        IF i % 2 = 1 THEN keys[(i + 1) \div 2] ELSE values[i \div 2]]

\* Each AST_<kind>::accept: the handler it calls and, given what the handler
\* returned (skip), the children it then calls accept on, in order.
AST_alias_accept(n, skip) == [handler |-> "visit_alias", calls |-> <<>>]

AST_arguments_accept(n, skip) ==
    [handler |-> "visit_arguments",
     calls |-> IF skip THEN <<>>
               ELSE visitVector(n.defaults)
                          \o visitVector(n.args)
                          \o OptChild(n.kwarg)
                          \o OptChild(n.vararg)]

AST_Assert_accept(n, skip) ==
    [handler |-> "visit_assert",
     calls |-> IF skip THEN <<>>
               ELSE <<n.test>> \o OptChild(n.msg)]

\* A faulty AST_Assign::accept that visits the targets before the value.
AST_Assign_accept_targetsFirst(n, skip) ==
    [handler |-> "visit_assign",
     calls |-> IF skip THEN <<>>
               ELSE visitVector(n.targets) \o <<n.value>>]

AST_Assign_accept(n, skip) ==
    [handler |-> "visit_assign",
     calls |-> IF skip THEN <<>>
               ELSE <<n.value>> \o visitVector(n.targets)]

AST_AugAssign_accept(n, skip) ==
    [handler |-> "visit_augassign",
     calls |-> IF skip THEN <<>>
               ELSE <<n.value>> \o <<n.target>>]

AST_AugBinOp_accept(n, skip) ==
    [handler |-> "visit_augbinop",
     calls |-> IF skip THEN <<>>
               ELSE <<n.left>> \o <<n.right>>]

AST_Attribute_accept(n, skip) ==
    [handler |-> "visit_attribute",
     calls |-> IF skip THEN <<>>
               ELSE <<n.value>>]

\* A faulty AST_BinOp::accept that descends whatever the handler returned.
AST_BinOp_accept_ignoresSkip(n, skip) ==
    [handler |-> "visit_binop", calls |-> <<n.left>> \o <<n.right>>]

AST_BinOp_accept(n, skip) ==
    [handler |-> "visit_binop",
     calls |-> IF skip THEN <<>>
               ELSE <<n.left>> \o <<n.right>>]

AST_BoolOp_accept(n, skip) ==
    [handler |-> "visit_boolop",
     calls |-> IF skip THEN <<>>
               ELSE visitVector(n.values)]

AST_Break_accept(n, skip) == [handler |-> "visit_break", calls |-> <<>>]

\* A faulty AST_Call::accept that calls the handler of another kind.
AST_Call_accept_wrongHandler(n, skip) ==
    [handler |-> "visit_compare",
     calls |-> IF skip THEN <<>>
               ELSE <<n.func>>
                          \o visitVector(n.args)
                          \o visitVector(n.keywords)
                          \o OptChild(n.starargs)
                          \o OptChild(n.kwargs)]

\* A faulty AST_Call::accept that visits kwargs before star-args and the
\* keyword arguments before the positional ones.
AST_Call_accept_kwargsFirst(n, skip) ==
    [handler |-> "visit_call",
     calls |-> IF skip THEN <<>>
               ELSE <<n.func>>
                          \o visitVector(n.keywords)
                          \o visitVector(n.args)
                          \o OptChild(n.kwargs)
                          \o OptChild(n.starargs)]

AST_Call_accept(n, skip) ==
    [handler |-> "visit_call",
     calls |-> IF skip THEN <<>>
               ELSE <<n.func>>
                          \o visitVector(n.args)
                          \o visitVector(n.keywords)
                          \o OptChild(n.starargs)
                          \o OptChild(n.kwargs)]

AST_Compare_accept(n, skip) ==
    [handler |-> "visit_compare",
     calls |-> IF skip THEN <<>>
               ELSE <<n.left>> \o visitVector(n.comparators)]

AST_comprehension_accept(n, skip) ==
    [handler |-> "visit_comprehension",
     calls |-> IF skip THEN <<>>
               ELSE <<n.target>> \o <<n.iter>> \o visitVector(n.ifs)]

AST_ClassDef_accept(n, skip) ==
    [handler |-> "visit_classdef",
     calls |-> IF skip THEN <<>>
               ELSE visitVector(n.bases)
                          \o visitVector(n.decorator_list)
                          \o visitVector(n.body)]

AST_Continue_accept(n, skip) == [handler |-> "visit_continue", calls |-> <<>>]

AST_Delete_accept(n, skip) ==
    [handler |-> "visit_delete",
     calls |-> IF skip THEN <<>>
               ELSE visitVector(n.targets)]

AST_Dict_accept(n, skip) ==
    [handler |-> "visit_dict",
     calls |-> IF skip THEN <<>>
               ELSE zipKeysValues(n.keys, n.values)]

AST_DictComp_accept(n, skip) ==
    [handler |-> "visit_dictcomp",
     calls |-> IF skip THEN <<>>
               ELSE visitVector(n.generators) \o <<n.value>> \o <<n.key>>]

AST_Ellipsis_accept(n, skip) == [handler |-> "visit_ellipsis", calls |-> <<>>]

AST_ExceptHandler_accept(n, skip) ==
    [handler |-> "visit_excepthandler",
     calls |-> IF skip THEN <<>>
               ELSE OptChild(n.type) \o OptChild(n.name) \o visitVector(n.body)]

AST_Exec_accept(n, skip) ==
    [handler |-> "visit_exec",
     calls |-> IF skip THEN <<>>
               ELSE OptChild(n.body)
                          \o OptChild(n.globals)
                          \o OptChild(n.locals)]

AST_Expr_accept(n, skip) ==
    [handler |-> "visit_expr",
     calls |-> IF skip THEN <<>>
               ELSE <<n.value>>]

AST_ExtSlice_accept(n, skip) ==
    [handler |-> "visit_extslice",
     calls |-> IF skip THEN <<>>
               ELSE visitVector(n.dims)]

AST_For_accept(n, skip) ==
    [handler |-> "visit_for",
     calls |-> IF skip THEN <<>>
               ELSE <<n.iter>>
                          \o <<n.target>>
                          \o visitVector(n.body)
                          \o visitVector(n.orelse)]

AST_FunctionDef_accept(n, skip) ==
    [handler |-> "visit_functiondef",
     calls |-> IF skip THEN <<>>
               ELSE visitVector(n.decorator_list)
                          \o <<n.args>>
                          \o visitVector(n.body)]

AST_GeneratorExp_accept(n, skip) ==
    [handler |-> "visit_generatorexp",
     calls |-> IF skip THEN <<>>
               ELSE visitVector(n.generators) \o <<n.elt>>]

AST_Global_accept(n, skip) == [handler |-> "visit_global", calls |-> <<>>]

AST_If_accept(n, skip) ==
    [handler |-> "visit_if",
     calls |-> IF skip THEN <<>>
               ELSE <<n.test>> \o visitVector(n.body) \o visitVector(n.orelse)]

AST_IfExp_accept(n, skip) ==
    [handler |-> "visit_ifexp",
     calls |-> IF skip THEN <<>>
               ELSE <<n.test>> \o <<n.body>> \o <<n.orelse>>]

AST_Import_accept(n, skip) ==
    [handler |-> "visit_import",
     calls |-> IF skip THEN <<>>
               ELSE visitVector(n.names)]

AST_ImportFrom_accept(n, skip) ==
    [handler |-> "visit_importfrom",
     calls |-> IF skip THEN <<>>
               ELSE visitVector(n.names)]

AST_Index_accept(n, skip) ==
    [handler |-> "visit_index",
     calls |-> IF skip THEN <<>>
               ELSE <<n.value>>]

AST_Invoke_accept(n, skip) ==
    [handler |-> "visit_invoke",
     calls |-> IF skip THEN <<>>
               ELSE <<n.stmt>>]

AST_keyword_accept(n, skip) ==
    [handler |-> "visit_keyword",
     calls |-> IF skip THEN <<>>
               ELSE <<n.value>>]

AST_Lambda_accept(n, skip) ==
    [handler |-> "visit_lambda",
     calls |-> IF skip THEN <<>>
               ELSE <<n.args>> \o <<n.body>>]

AST_LangPrimitive_accept(n, skip) ==
    [handler |-> "visit_langprimitive",
     calls |-> IF skip THEN <<>>
               ELSE visitVector(n.args)]

AST_List_accept(n, skip) ==
    [handler |-> "visit_list",
     calls |-> IF skip THEN <<>>
               ELSE visitVector(n.elts)]

AST_ListComp_accept(n, skip) ==
    [handler |-> "visit_listcomp",
     calls |-> IF skip THEN <<>>
               ELSE visitVector(n.generators) \o <<n.elt>>]

AST_Module_accept(n, skip) ==
    [handler |-> "visit_module",
     calls |-> IF skip THEN <<>>
               ELSE visitVector(n.body)]

AST_Expression_accept(n, skip) ==
    [handler |-> "visit_expression",
     calls |-> IF skip THEN <<>>
               ELSE <<n.body>>]

AST_Suite_accept(n, skip) ==
    [handler |-> "visit_suite",
     calls |-> IF skip THEN <<>>
               ELSE visitVector(n.body)]

AST_Name_accept(n, skip) == [handler |-> "visit_name", calls |-> <<>>]

AST_Num_accept(n, skip) == [handler |-> "visit_num", calls |-> <<>>]

AST_Pass_accept(n, skip) == [handler |-> "visit_pass", calls |-> <<>>]

AST_Print_accept(n, skip) ==
    [handler |-> "visit_print",
     calls |-> IF skip THEN <<>>
               ELSE OptChild(n.dest) \o visitVector(n.values)]

AST_Raise_accept(n, skip) ==
    [handler |-> "visit_raise",
     calls |-> IF skip THEN <<>>
               ELSE OptChild(n.arg0) \o OptChild(n.arg1) \o OptChild(n.arg2)]

AST_Repr_accept(n, skip) ==
    [handler |-> "visit_repr",
     calls |-> IF skip THEN <<>>
               ELSE <<n.value>>]

AST_Return_accept(n, skip) ==
    [handler |-> "visit_return",
     calls |-> IF skip THEN <<>>
               ELSE OptChild(n.value)]

AST_Set_accept(n, skip) ==
    [handler |-> "visit_set",
     calls |-> IF skip THEN <<>>
               ELSE visitVector(n.elts)]

AST_SetComp_accept(n, skip) ==
    [handler |-> "visit_setcomp",
     calls |-> IF skip THEN <<>>
               ELSE visitVector(n.generators) \o <<n.elt>>]

AST_Slice_accept(n, skip) ==
    [handler |-> "visit_slice",
     calls |-> IF skip THEN <<>>
               ELSE OptChild(n.lower) \o OptChild(n.upper) \o OptChild(n.step)]

AST_Str_accept(n, skip) == [handler |-> "visit_str", calls |-> <<>>]

AST_Subscript_accept(n, skip) ==
    [handler |-> "visit_subscript",
     calls |-> IF skip THEN <<>>
               ELSE <<n.value>> \o <<n.slice>>]

AST_TryExcept_accept(n, skip) ==
    [handler |-> "visit_tryexcept",
     calls |-> IF skip THEN <<>>
               ELSE visitVector(n.body)
                          \o visitVector(n.orelse)
                          \o visitVector(n.handlers)]

AST_TryFinally_accept(n, skip) ==
    [handler |-> "visit_tryfinally",
     calls |-> IF skip THEN <<>>
               ELSE visitVector(n.body) \o visitVector(n.finalbody)]

AST_Tuple_accept(n, skip) ==
    [handler |-> "visit_tuple",
     calls |-> IF skip THEN <<>>
               ELSE visitVector(n.elts)]

AST_UnaryOp_accept(n, skip) ==
    [handler |-> "visit_unaryop",
     calls |-> IF skip THEN <<>>
               ELSE <<n.operand>>]

AST_While_accept(n, skip) ==
    [handler |-> "visit_while",
     calls |-> IF skip THEN <<>>
               ELSE <<n.test>> \o visitVector(n.body) \o visitVector(n.orelse)]

AST_With_accept(n, skip) ==
    [handler |-> "visit_with",
     calls |-> IF skip THEN <<>>
               ELSE <<n.context_expr>>
                          \o OptChild(n.optional_vars)
                          \o visitVector(n.body)]

AST_Yield_accept(n, skip) ==
    [handler |-> "visit_yield",
     calls |-> IF skip THEN <<>>
               ELSE OptChild(n.value)]

AST_ClsAttribute_accept(n, skip) ==
    [handler |-> "visit_clsattribute",
     calls |-> IF skip THEN <<>>
               ELSE <<n.value>>]
\* Virtual dispatch of accept on the node's concrete kind.
AST_accept(n, skip) ==
    CASE n.kind = "alias" -> AST_alias_accept(n, skip)
      [] n.kind = "arguments" -> AST_arguments_accept(n, skip)
      [] n.kind = "Assert" -> AST_Assert_accept(n, skip)
      [] n.kind = "Assign" -> AST_Assign_accept(n, skip)
      [] n.kind = "AugAssign" -> AST_AugAssign_accept(n, skip)
      [] n.kind = "AugBinOp" -> AST_AugBinOp_accept(n, skip)
      [] n.kind = "Attribute" -> AST_Attribute_accept(n, skip)
      [] n.kind = "BinOp" -> AST_BinOp_accept(n, skip)
      [] n.kind = "BoolOp" -> AST_BoolOp_accept(n, skip)
      [] n.kind = "Break" -> AST_Break_accept(n, skip)
      [] n.kind = "Call" -> AST_Call_accept(n, skip)
      [] n.kind = "Compare" -> AST_Compare_accept(n, skip)
      [] n.kind = "comprehension" -> AST_comprehension_accept(n, skip)
      [] n.kind = "ClassDef" -> AST_ClassDef_accept(n, skip)
      [] n.kind = "Continue" -> AST_Continue_accept(n, skip)
      [] n.kind = "Delete" -> AST_Delete_accept(n, skip)
      [] n.kind = "Dict" -> AST_Dict_accept(n, skip)
      [] n.kind = "DictComp" -> AST_DictComp_accept(n, skip)
      [] n.kind = "Ellipsis" -> AST_Ellipsis_accept(n, skip)
      [] n.kind = "ExceptHandler" -> AST_ExceptHandler_accept(n, skip)
      [] n.kind = "Exec" -> AST_Exec_accept(n, skip)
      [] n.kind = "Expr" -> AST_Expr_accept(n, skip)
      [] n.kind = "ExtSlice" -> AST_ExtSlice_accept(n, skip)
      [] n.kind = "For" -> AST_For_accept(n, skip)
      [] n.kind = "FunctionDef" -> AST_FunctionDef_accept(n, skip)
      [] n.kind = "GeneratorExp" -> AST_GeneratorExp_accept(n, skip)
      [] n.kind = "Global" -> AST_Global_accept(n, skip)
      [] n.kind = "If" -> AST_If_accept(n, skip)
      [] n.kind = "IfExp" -> AST_IfExp_accept(n, skip)
      [] n.kind = "Import" -> AST_Import_accept(n, skip)
      [] n.kind = "ImportFrom" -> AST_ImportFrom_accept(n, skip)
      [] n.kind = "Index" -> AST_Index_accept(n, skip)
      [] n.kind = "Invoke" -> AST_Invoke_accept(n, skip)
      [] n.kind = "keyword" -> AST_keyword_accept(n, skip)
      [] n.kind = "Lambda" -> AST_Lambda_accept(n, skip)
      [] n.kind = "LangPrimitive" -> AST_LangPrimitive_accept(n, skip)
      [] n.kind = "List" -> AST_List_accept(n, skip)
      [] n.kind = "ListComp" -> AST_ListComp_accept(n, skip)
      [] n.kind = "Module" -> AST_Module_accept(n, skip)
      [] n.kind = "Expression" -> AST_Expression_accept(n, skip)
      [] n.kind = "Suite" -> AST_Suite_accept(n, skip)
      [] n.kind = "Name" -> AST_Name_accept(n, skip)
      [] n.kind = "Num" -> AST_Num_accept(n, skip)
      [] n.kind = "Pass" -> AST_Pass_accept(n, skip)
      [] n.kind = "Print" -> AST_Print_accept(n, skip)
      [] n.kind = "Raise" -> AST_Raise_accept(n, skip)
      [] n.kind = "Repr" -> AST_Repr_accept(n, skip)
      [] n.kind = "Return" -> AST_Return_accept(n, skip)
      [] n.kind = "Set" -> AST_Set_accept(n, skip)
      [] n.kind = "SetComp" -> AST_SetComp_accept(n, skip)
      [] n.kind = "Slice" -> AST_Slice_accept(n, skip)
      [] n.kind = "Str" -> AST_Str_accept(n, skip)
      [] n.kind = "Subscript" -> AST_Subscript_accept(n, skip)
      [] n.kind = "TryExcept" -> AST_TryExcept_accept(n, skip)
      [] n.kind = "TryFinally" -> AST_TryFinally_accept(n, skip)
      [] n.kind = "Tuple" -> AST_Tuple_accept(n, skip)
      [] n.kind = "UnaryOp" -> AST_UnaryOp_accept(n, skip)
      [] n.kind = "While" -> AST_While_accept(n, skip)
      [] n.kind = "With" -> AST_With_accept(n, skip)
      [] n.kind = "Yield" -> AST_Yield_accept(n, skip)
      [] n.kind = "ClsAttribute" -> AST_ClsAttribute_accept(n, skip)

\* The kinds that define accept_stmt.
StmtKinds ==
    {"Assert", "Assign", "AugAssign", "Break", "ClassDef", "Continue",
     "Delete", "Exec", "Expr", "For", "FunctionDef", "Global",
     "If", "Import", "ImportFrom", "Invoke", "Pass", "Print",
     "Raise", "Return", "TryExcept", "TryFinally", "While", "With"}

\* A faulty accept_stmt that goes on into the children as accept does.
AST_accept_stmt_descends(n) == AST_accept(n, FALSE)

\* accept_stmt of each statement kind: one handler call, nothing else.
AST_accept_stmt(n) ==
    CASE n.kind = "Assert" -> [handler |-> "visit_assert", calls |-> <<>>]
      [] n.kind = "Assign" -> [handler |-> "visit_assign", calls |-> <<>>]
      [] n.kind = "AugAssign" -> [handler |-> "visit_augassign", calls |-> <<>>]
      [] n.kind = "Break" -> [handler |-> "visit_break", calls |-> <<>>]
      [] n.kind = "ClassDef" -> [handler |-> "visit_classdef", calls |-> <<>>]
      [] n.kind = "Continue" -> [handler |-> "visit_continue", calls |-> <<>>]
      [] n.kind = "Delete" -> [handler |-> "visit_delete", calls |-> <<>>]
      [] n.kind = "Exec" -> [handler |-> "visit_exec", calls |-> <<>>]
      [] n.kind = "Expr" -> [handler |-> "visit_expr", calls |-> <<>>]
      [] n.kind = "For" -> [handler |-> "visit_for", calls |-> <<>>]
      [] n.kind = "FunctionDef" -> [handler |-> "visit_functiondef", calls |-> <<>>]
      [] n.kind = "Global" -> [handler |-> "visit_global", calls |-> <<>>]
      [] n.kind = "If" -> [handler |-> "visit_if", calls |-> <<>>]
      [] n.kind = "Import" -> [handler |-> "visit_import", calls |-> <<>>]
      [] n.kind = "ImportFrom" -> [handler |-> "visit_importfrom", calls |-> <<>>]
      [] n.kind = "Invoke" -> [handler |-> "visit_invoke", calls |-> <<>>]
      [] n.kind = "Pass" -> [handler |-> "visit_pass", calls |-> <<>>]
      [] n.kind = "Print" -> [handler |-> "visit_print", calls |-> <<>>]
      [] n.kind = "Raise" -> [handler |-> "visit_raise", calls |-> <<>>]
      [] n.kind = "Return" -> [handler |-> "visit_return", calls |-> <<>>]
      [] n.kind = "TryExcept" -> [handler |-> "visit_tryexcept", calls |-> <<>>]
      [] n.kind = "TryFinally" -> [handler |-> "visit_tryfinally", calls |-> <<>>]
      [] n.kind = "While" -> [handler |-> "visit_while", calls |-> <<>>]
      [] n.kind = "With" -> [handler |-> "visit_with", calls |-> <<>>]

\* The node type each handler is declared to take.
HandlerNodeType(h) ==
    CASE h = "visit_alias" -> "alias"
      [] h = "visit_arguments" -> "arguments"
      [] h = "visit_assert" -> "Assert"
      [] h = "visit_assign" -> "Assign"
      [] h = "visit_augassign" -> "AugAssign"
      [] h = "visit_augbinop" -> "AugBinOp"
      [] h = "visit_attribute" -> "Attribute"
      [] h = "visit_binop" -> "BinOp"
      [] h = "visit_boolop" -> "BoolOp"
      [] h = "visit_break" -> "Break"
      [] h = "visit_call" -> "Call"
      [] h = "visit_compare" -> "Compare"
      [] h = "visit_comprehension" -> "comprehension"
      [] h = "visit_classdef" -> "ClassDef"
      [] h = "visit_continue" -> "Continue"
      [] h = "visit_delete" -> "Delete"
      [] h = "visit_dict" -> "Dict"
      [] h = "visit_dictcomp" -> "DictComp"
      [] h = "visit_ellipsis" -> "Ellipsis"
      [] h = "visit_excepthandler" -> "ExceptHandler"
      [] h = "visit_exec" -> "Exec"
      [] h = "visit_expr" -> "Expr"
      [] h = "visit_extslice" -> "ExtSlice"
      [] h = "visit_for" -> "For"
      [] h = "visit_functiondef" -> "FunctionDef"
      [] h = "visit_generatorexp" -> "GeneratorExp"
      [] h = "visit_global" -> "Global"
      [] h = "visit_if" -> "If"
      [] h = "visit_ifexp" -> "IfExp"
      [] h = "visit_import" -> "Import"
      [] h = "visit_importfrom" -> "ImportFrom"
      [] h = "visit_index" -> "Index"
      [] h = "visit_invoke" -> "Invoke"
      [] h = "visit_lambda" -> "Lambda"
      [] h = "visit_langprimitive" -> "LangPrimitive"
      [] h = "visit_list" -> "List"
      [] h = "visit_listcomp" -> "ListComp"
      [] h = "visit_keyword" -> "keyword"
      [] h = "visit_module" -> "Module"
      [] h = "visit_expression" -> "Expression"
      [] h = "visit_suite" -> "Suite"
      [] h = "visit_name" -> "Name"
      [] h = "visit_num" -> "Num"
      [] h = "visit_pass" -> "Pass"
      [] h = "visit_print" -> "Print"
      [] h = "visit_raise" -> "Raise"
      [] h = "visit_repr" -> "Repr"
      [] h = "visit_return" -> "Return"
      [] h = "visit_set" -> "Set"
      [] h = "visit_setcomp" -> "SetComp"
      [] h = "visit_slice" -> "Slice"
      [] h = "visit_str" -> "Str"
      [] h = "visit_subscript" -> "Subscript"
      [] h = "visit_tryexcept" -> "TryExcept"
      [] h = "visit_tryfinally" -> "TryFinally"
      [] h = "visit_tuple" -> "Tuple"
      [] h = "visit_unaryop" -> "UnaryOp"
      [] h = "visit_while" -> "While"
      [] h = "visit_with" -> "With"
      [] h = "visit_yield" -> "Yield"
      [] h = "visit_clsattribute" -> "ClsAttribute"
\* The stub visitor's handler for a node: true asks accept to skip the
\* node's children.
StubHandler(id) == id \in skipNodes

CallEvent(how, id) ==
    [op |-> how, node |-> id, handler |-> "", ret |-> FALSE]

VisitEvent(id, h, r) ==
    [op |-> "visit", node |-> id, handler |-> h, ret |-> r]

RECURSIVE Cat(_)
Cat(seqs) == IF seqs = <<>> THEN <<>> ELSE Head(seqs) \o Cat(Tail(seqs))

\* node->accept(v): the handler call, then accept on each child in turn.
RECURSIVE accept(_)
accept(id) ==
    LET skip == StubHandler(id)
        a == AST_accept(ast[id], skip)
    IN  <<CallEvent("accept", id), VisitEvent(id, a.handler, skip)>>
        \o Cat([i \in 1..Len(a.calls) |-> accept(a.calls[i])])

\* node->accept_stmt(v): the statement handler returns nothing.
accept_stmt(id) ==
    LET a == AST_accept_stmt(ast[id])
    IN  <<CallEvent("accept_stmt", id), VisitEvent(id, a.handler, FALSE)>>
        \o Cat([i \in 1..Len(a.calls) |-> accept(a.calls[i])])

(***************************************************************************)
(* The operator resolver.  Strings are sequences of characters.            *)
(***************************************************************************)
\* The operator tags of AST_TYPE: the ones getOpSymbol knows and the two
\* boolean tags of AST_BoolOp.
OperatorTags ==
    {"Add", "BitAnd", "BitOr", "BitXor", "Div", "TrueDiv", "DivMod", "Eq",
     "FloorDiv", "LShift", "Lt", "LtE", "Gt", "GtE", "In", "Invert", "Is",
     "IsNot", "Mod", "Mult", "Not", "NotEq", "NotIn", "Pow", "RShift", "Sub",
     "UAdd", "USub", "And", "Or"}

\* AST_TYPE values that are no operator tag; the resolver takes any int.
OtherTags == {"Name", "Pass"}

Returned(v) == [aborted |-> FALSE, val |-> v]
Aborted == [aborted |-> TRUE, val |-> <<>>]

\* A null BoxedString*.
NullString == <<>>

\* A faulty getOpSymbol whose default returns an empty symbol.
getOpSymbol_defaultEmpty(op) ==
    CASE op = "Add" -> Returned(<<"+">>)
      [] op = "BitAnd" -> Returned(<<"&">>)
      [] op = "BitOr" -> Returned(<<"|">>)
      [] op = "BitXor" -> Returned(<<"^">>)
      [] op = "Div" -> Returned(<<"/">>)
      [] op = "TrueDiv" -> Returned(<<"/">>)
      [] op = "DivMod" -> Returned(<<"d", "i", "v", "m", "o", "d", "(", ")">>)
      [] op = "Eq" -> Returned(<<"=", "=">>)
      [] op = "FloorDiv" -> Returned(<<"/", "/">>)
      [] op = "LShift" -> Returned(<<"<", "<">>)
      [] op = "Lt" -> Returned(<<"<">>)
      [] op = "LtE" -> Returned(<<"<", "=">>)
      [] op = "Gt" -> Returned(<<">">>)
      [] op = "GtE" -> Returned(<<">", "=">>)
      [] op = "In" -> Returned(<<"i", "n">>)
      [] op = "Invert" -> Returned(<<"~">>)
      [] op = "Is" -> Returned(<<"i", "s">>)
      [] op = "IsNot" -> Returned(<<"i", "s", " ", "n", "o", "t">>)
      [] op = "Mod" -> Returned(<<"%">>)
      [] op = "Mult" -> Returned(<<"*">>)
      [] op = "Not" -> Returned(<<"n", "o", "t">>)
      [] op = "NotEq" -> Returned(<<"!", "=">>)
      [] op = "NotIn" -> Returned(<<"n", "o", "t", " ", "i", "n">>)
      [] op = "Pow" -> Returned(<<"*", "*">>)
      [] op = "RShift" -> Returned(<<">", ">">>)
      [] op = "Sub" -> Returned(<<"-">>)
      [] op = "UAdd" -> Returned(<<"+">>)
      [] op = "USub" -> Returned(<<"-">>)
      [] OTHER -> Returned(<<>>)

\* getOpSymbol's switch: the display symbol of a tag, abort() by default.
getOpSymbol(op) ==
    CASE op = "Add" -> Returned(<<"+">>)
      [] op = "BitAnd" -> Returned(<<"&">>)
      [] op = "BitOr" -> Returned(<<"|">>)
      [] op = "BitXor" -> Returned(<<"^">>)
      [] op = "Div" -> Returned(<<"/">>)
      [] op = "TrueDiv" -> Returned(<<"/">>)
      [] op = "DivMod" -> Returned(<<"d", "i", "v", "m", "o", "d", "(", ")">>)
      [] op = "Eq" -> Returned(<<"=", "=">>)
      [] op = "FloorDiv" -> Returned(<<"/", "/">>)
      [] op = "LShift" -> Returned(<<"<", "<">>)
      [] op = "Lt" -> Returned(<<"<">>)
      [] op = "LtE" -> Returned(<<"<", "=">>)
      [] op = "Gt" -> Returned(<<">">>)
      [] op = "GtE" -> Returned(<<">", "=">>)
      [] op = "In" -> Returned(<<"i", "n">>)
      [] op = "Invert" -> Returned(<<"~">>)
      [] op = "Is" -> Returned(<<"i", "s">>)
      [] op = "IsNot" -> Returned(<<"i", "s", " ", "n", "o", "t">>)
      [] op = "Mod" -> Returned(<<"%">>)
      [] op = "Mult" -> Returned(<<"*">>)
      [] op = "Not" -> Returned(<<"n", "o", "t">>)
      [] op = "NotEq" -> Returned(<<"!", "=">>)
      [] op = "NotIn" -> Returned(<<"n", "o", "t", " ", "i", "n">>)
      [] op = "Pow" -> Returned(<<"*", "*">>)
      [] op = "RShift" -> Returned(<<">", ">">>)
      [] op = "Sub" -> Returned(<<"-">>)
      [] op = "UAdd" -> Returned(<<"+">>)
      [] op = "USub" -> Returned(<<"-">>)
      [] OTHER -> Aborted

\* The static name slots of getOpName.
SlotNames ==
    {"strAdd", "strBitAnd", "strBitOr", "strBitXor", "strDiv",
     "strTrueDiv", "strDivMod", "strEq", "strFloorDiv", "strLShift",
     "strLt", "strLtE", "strGt", "strGtE", "strIn",
     "strInvert", "strMod", "strMult", "strNot", "strNotEq",
     "strPow", "strRShift", "strSub", "strUAdd", "strUSub"}

\* The first call's assignments: slot = getStaticString(name).
StaticStrings(slot) ==
    CASE slot = "strAdd" -> <<"_", "_", "a", "d", "d", "_", "_">>
      [] slot = "strBitAnd" -> <<"_", "_", "a", "n", "d", "_", "_">>
      [] slot = "strBitOr" -> <<"_", "_", "o", "r", "_", "_">>
      [] slot = "strBitXor" -> <<"_", "_", "x", "o", "r", "_", "_">>
      [] slot = "strDiv" -> <<"_", "_", "d", "i", "v", "_", "_">>
      [] slot = "strTrueDiv" -> <<"_", "_", "t", "r", "u", "e", "d", "i", "v", "_", "_">>
      [] slot = "strDivMod" -> <<"_", "_", "d", "i", "v", "m", "o", "d", "_", "_">>
      [] slot = "strEq" -> <<"_", "_", "e", "q", "_", "_">>
      [] slot = "strFloorDiv" -> <<"_", "_", "f", "l", "o", "o", "r", "d", "i", "v", "_", "_">>
      [] slot = "strLShift" -> <<"_", "_", "l", "s", "h", "i", "f", "t", "_", "_">>
      [] slot = "strLt" -> <<"_", "_", "l", "t", "_", "_">>
      [] slot = "strLtE" -> <<"_", "_", "l", "e", "_", "_">>
      [] slot = "strGt" -> <<"_", "_", "g", "t", "_", "_">>
      [] slot = "strGtE" -> <<"_", "_", "g", "e", "_", "_">>
      [] slot = "strIn" -> <<"_", "_", "c", "o", "n", "t", "a", "i", "n", "s", "_", "_">>
      [] slot = "strInvert" -> <<"_", "_", "i", "n", "v", "e", "r", "t", "_", "_">>
      [] slot = "strMod" -> <<"_", "_", "m", "o", "d", "_", "_">>
      [] slot = "strMult" -> <<"_", "_", "m", "u", "l", "_", "_">>
      [] slot = "strNot" -> <<"_", "_", "n", "o", "n", "z", "e", "r", "o", "_", "_">>
      [] slot = "strNotEq" -> <<"_", "_", "n", "e", "_", "_">>
      [] slot = "strPow" -> <<"_", "_", "p", "o", "w", "_", "_">>
      [] slot = "strRShift" -> <<"_", "_", "r", "s", "h", "i", "f", "t", "_", "_">>
      [] slot = "strSub" -> <<"_", "_", "s", "u", "b", "_", "_">>
      [] slot = "strUAdd" -> <<"_", "_", "p", "o", "s", "_", "_">>
      [] slot = "strUSub" -> <<"_", "_", "n", "e", "g", "_", "_">>

\* getOpName's switch: the slot returned for a tag ("" where it falls to
\* the default and aborts).
OpNameSlot(op) ==
    CASE op = "Add" -> "strAdd"
      [] op = "BitAnd" -> "strBitAnd"
      [] op = "BitOr" -> "strBitOr"
      [] op = "BitXor" -> "strBitXor"
      [] op = "Div" -> "strDiv"
      [] op = "TrueDiv" -> "strTrueDiv"
      [] op = "DivMod" -> "strDivMod"
      [] op = "Eq" -> "strEq"
      [] op = "FloorDiv" -> "strFloorDiv"
      [] op = "LShift" -> "strLShift"
      [] op = "Lt" -> "strLt"
      [] op = "LtE" -> "strLtE"
      [] op = "Gt" -> "strGt"
      [] op = "GtE" -> "strGtE"
      [] op = "In" -> "strIn"
      [] op = "Invert" -> "strInvert"
      [] op = "Mod" -> "strMod"
      [] op = "Mult" -> "strMult"
      [] op = "Not" -> "strNot"
      [] op = "NotEq" -> "strNotEq"
      [] op = "Pow" -> "strPow"
      [] op = "RShift" -> "strRShift"
      [] op = "Sub" -> "strSub"
      [] op = "UAdd" -> "strUAdd"
      [] op = "USub" -> "strUSub"
      [] OTHER -> ""

\* getInplaceOpSymbol: the symbol followed by '='.
getInplaceOpSymbol(op) ==
    LET s == getOpSymbol(op)
    IN  IF s.aborted THEN Aborted ELSE Returned(s.val \o <<"=">>)

\* std::string::substr(pos), pos counted from 0.
substr(s, pos) == SubSeq(s, pos + 1, Len(s))

\* A faulty getOpName whose switch has no aborting default: an unmapped tag
\* gets a null name back.
getOpName_defaultReturns(op, st, nd) ==
    IF ~nd /\ op \in {"Is", "IsNot"}
    THEN [aborted |-> TRUE, val |-> NullString,
          initialized |-> st.initialized, strSlot |-> st.strSlot]
    ELSE LET slots == IF ~st.initialized
                      THEN [s \in SlotNames |-> StaticStrings(s)]
                      ELSE st.strSlot
         IN  [aborted |-> FALSE,
              val |-> IF OpNameSlot(op) = "" THEN NullString
                      ELSE slots[OpNameSlot(op)],
              initialized |-> TRUE, strSlot |-> slots]

\* A faulty getOpName that returns its slot without the first call's
\* initialization.
getOpName_skipsInit(op, st, nd) ==
    IF (~nd /\ op \in {"Is", "IsNot"}) \/ OpNameSlot(op) = ""
    THEN [aborted |-> TRUE, val |-> NullString,
          initialized |-> st.initialized, strSlot |-> st.strSlot]
    ELSE [aborted |-> FALSE, val |-> st.strSlot[OpNameSlot(op)],
          initialized |-> st.initialized, strSlot |-> st.strSlot]

\* getOpName under the statics st = [initialized, strSlot] in a build with
\* or without assert: the result and the statics it leaves behind.  A failed
\* assert stops before the statics are touched; the default of the switch
\* aborts after they were set.
getOpName(op, st, nd) ==
    IF ~nd /\ op \in {"Is", "IsNot"}
    THEN [aborted |-> TRUE, val |-> NullString,
          initialized |-> st.initialized, strSlot |-> st.strSlot]
    ELSE LET slots == IF ~st.initialized
                      THEN [s \in SlotNames |-> StaticStrings(s)]
                      ELSE st.strSlot
         IN  IF OpNameSlot(op) = ""
             THEN [aborted |-> TRUE, val |-> NullString,
                   initialized |-> TRUE, strSlot |-> slots]
             ELSE [aborted |-> FALSE, val |-> slots[OpNameSlot(op)],
                   initialized |-> TRUE, strSlot |-> slots]

\* A faulty getInplaceOpName that cuts one character too many.
getInplaceOpName_cutsThree(op, st, nd) ==
    LET normal_name == getOpName(op, st, nd)
    IN  IF normal_name.aborted THEN normal_name
        ELSE [normal_name EXCEPT
                 !.val = <<"_", "_", "i">> \o substr(normal_name.val, 3)]

\* getInplaceOpName: "__i" + normal_name.substr(2).
getInplaceOpName(op, st, nd) ==
    LET normal_name == getOpName(op, st, nd)
    IN  IF normal_name.aborted THEN normal_name
        ELSE [normal_name EXCEPT
                 !.val = <<"_", "_", "i">> \o substr(normal_name.val, 2)]

\* A faulty getReverseCmpOp that swaps LtE to Gt.
getReverseCmpOp_LtEtoGt(op) ==
    IF op = "Lt" THEN [ret |-> "Gt", success |-> TRUE]
    ELSE IF op = "LtE" THEN [ret |-> "Gt", success |-> TRUE]
    ELSE IF op = "Gt" THEN [ret |-> "Lt", success |-> TRUE]
    ELSE IF op = "GtE" THEN [ret |-> "LtE", success |-> TRUE]
    ELSE IF op = "NotEq" THEN [ret |-> "NotEq", success |-> TRUE]
    ELSE IF op = "Eq" THEN [ret |-> "Eq", success |-> TRUE]
    ELSE [ret |-> op, success |-> FALSE]

\* getReverseCmpOp: the swapped comparison and the success out-parameter.
getReverseCmpOp(op) ==
    IF op = "Lt" THEN [ret |-> "Gt", success |-> TRUE]
    ELSE IF op = "LtE" THEN [ret |-> "GtE", success |-> TRUE]
    ELSE IF op = "Gt" THEN [ret |-> "Lt", success |-> TRUE]
    ELSE IF op = "GtE" THEN [ret |-> "LtE", success |-> TRUE]
    ELSE IF op = "NotEq" THEN [ret |-> "NotEq", success |-> TRUE]
    ELSE IF op = "Eq" THEN [ret |-> "Eq", success |-> TRUE]
    ELSE [ret |-> op, success |-> FALSE]

\* A faulty getReverseOpName that derives an "__r" name for comparisons too.
getReverseOpName_alwaysDerives(op, st, nd) ==
    LET normal_name == getOpName(op, st, nd)
    IN  IF normal_name.aborted THEN normal_name
        ELSE [normal_name EXCEPT
                 !.val = <<"_", "_", "r">> \o substr(normal_name.val, 2)]

\* getReverseOpName: the swapped comparison's name, or "__r" +
\* normal_name.substr(2).
getReverseOpName(op, st, nd) ==
    LET rev == getReverseCmpOp(op)
        normal_name == getOpName(rev.ret, st, nd)
    IN  IF rev.success THEN normal_name
        ELSE IF normal_name.aborted THEN normal_name
        ELSE [normal_name EXCEPT
                 !.val = <<"_", "_", "r">> \o substr(normal_name.val, 2)]

Statics == [initialized |-> initialized, strSlot |-> strSlot]

Init ==
    /\ ast \in Trees
    /\ root = 1
    /\ skipNodes \in StubVisitors(ast)
    /\ pc = "idle"
    /\ trace = <<>>
    /\ op_type = "Add"
    /\ called = ""
    /\ result = Returned(NullString)
    /\ success = FALSE
    /\ initialized = FALSE
    /\ strSlot = [s \in SlotNames |-> NullString]
    /\ ndebug = FALSE
    /\ thr = <<>>
    /\ roots = <<>>
    /\ output = <<>>
    /\ output_in = <<>>
    /\ expand_scopes = TRUE
    /\ stream = <<>>
    /\ indent = 0
    /\ levels = <<>>

Accept ==
    /\ pc = "idle"
    /\ trace' = accept(root)
    /\ pc' = "done"
    /\ UNCHANGED <<ast, root, skipNodes>>
    /\ UNCHANGED opVars
    /\ UNCHANGED <<thrVars, flatVars, printVars>>

AcceptStmt ==
    /\ pc = "idle"
    /\ ast[root].kind \in StmtKinds
    /\ trace' = accept_stmt(root)
    /\ pc' = "done"
    /\ UNCHANGED <<ast, root, skipNodes>>
    /\ UNCHANGED opVars
    /\ UNCHANGED <<thrVars, flatVars, printVars>>

Next == Accept \/ AcceptStmt

Spec == Init /\ [][Next]_vars

(***************************************************************************)
(* The resolver's callers: one process calling the resolver functions in   *)
(* any order with any tag, until a call aborts it.                         *)
(***************************************************************************)
OpInputs == OperatorTags \cup OtherTags

OpInit ==
    /\ ast = <<>>
    /\ root = NULL
    /\ skipNodes = {}
    /\ pc = "idle"
    /\ trace = <<>>
    /\ op_type = "Add"
    /\ called = ""
    /\ result = Returned(NullString)
    /\ success = FALSE
    /\ initialized = FALSE
    /\ strSlot = [s \in SlotNames |-> NullString]
    /\ ndebug \in BOOLEAN
    /\ thr = <<>>
    /\ roots = <<>>
    /\ output = <<>>
    /\ output_in = <<>>
    /\ expand_scopes = TRUE
    /\ stream = <<>>
    /\ indent = 0
    /\ levels = <<>>

GetOpSymbol ==
    \E op \in OpInputs :
        /\ ~result.aborted
        /\ called' = "getOpSymbol"
        /\ op_type' = op
        /\ result' = getOpSymbol(op)
        /\ UNCHANGED <<success, initialized, strSlot, ndebug>>
        /\ UNCHANGED astVars
        /\ UNCHANGED <<thrVars, flatVars, printVars>>

GetInplaceOpSymbol ==
    \E op \in OpInputs :
        /\ ~result.aborted
        /\ called' = "getInplaceOpSymbol"
        /\ op_type' = op
        /\ result' = getInplaceOpSymbol(op)
        /\ UNCHANGED <<success, initialized, strSlot, ndebug>>
        /\ UNCHANGED astVars
        /\ UNCHANGED <<thrVars, flatVars, printVars>>

GetOpName ==
    \E op \in OpInputs :
        LET r == getOpName(op, Statics, ndebug)
        IN  /\ ~result.aborted
            /\ called' = "getOpName"
            /\ op_type' = op
            /\ result' = [aborted |-> r.aborted, val |-> r.val]
            /\ initialized' = r.initialized
            /\ strSlot' = r.strSlot
            /\ UNCHANGED <<success, ndebug>>
            /\ UNCHANGED astVars
            /\ UNCHANGED <<thrVars, flatVars, printVars>>

GetInplaceOpName ==
    \E op \in OpInputs :
        LET r == getInplaceOpName(op, Statics, ndebug)
        IN  /\ ~result.aborted
            /\ called' = "getInplaceOpName"
            /\ op_type' = op
            /\ result' = [aborted |-> r.aborted, val |-> r.val]
            /\ initialized' = r.initialized
            /\ strSlot' = r.strSlot
            /\ UNCHANGED <<success, ndebug>>
            /\ UNCHANGED astVars
            /\ UNCHANGED <<thrVars, flatVars, printVars>>

GetReverseCmpOp ==
    \E op \in OpInputs :
        /\ ~result.aborted
        /\ called' = "getReverseCmpOp"
        /\ op_type' = op
        /\ result' = Returned(getReverseCmpOp(op).ret)
        /\ success' = getReverseCmpOp(op).success
        /\ UNCHANGED <<initialized, strSlot, ndebug>>
        /\ UNCHANGED astVars
        /\ UNCHANGED <<thrVars, flatVars, printVars>>

GetReverseOpName ==
    \E op \in OpInputs :
        LET r == getReverseOpName(op, Statics, ndebug)
        IN  /\ ~result.aborted
            /\ called' = "getReverseOpName"
            /\ op_type' = op
            /\ result' = [aborted |-> r.aborted, val |-> r.val]
            /\ initialized' = r.initialized
            /\ strSlot' = r.strSlot
            /\ UNCHANGED <<success, ndebug>>
            /\ UNCHANGED astVars
            /\ UNCHANGED <<thrVars, flatVars, printVars>>

OpNext ==
    \/ GetOpSymbol
    \/ GetInplaceOpSymbol
    \/ GetOpName
    \/ GetInplaceOpName
    \/ GetReverseCmpOp
    \/ GetReverseOpName

OpSpec == OpInit /\ [][OpNext]_vars

(***************************************************************************)
(* What a finished call looks like in the trace.                           *)
(***************************************************************************)
VisitIdx == {i \in DOMAIN trace : trace[i].op = "visit"}

Visited(id) == \E i \in VisitIdx : trace[i].node = id

\* The position of a visited node's handler call.
Pos(id) == CHOOSE i \in VisitIdx : trace[i].node = id

ViaAccept == pc = "done" /\ trace[1].op = "accept"
ViaAcceptStmt == pc = "done" /\ trace[1].op = "accept_stmt"

\* The handler calls of accept on node i's entry: entered through accept.
AcceptVisits == {i \in VisitIdx : trace[i - 1].op = "accept"}

HasChildren(id) == ChildSet(id) # {}

\* Every node of the tree has exactly one handler call, a parent's comes
\* before its children's, and the handler calls of a node's subtree follow
\* the node's own without a gap: a pre-order walk of the whole tree.
FullPreOrderWalk ==
    /\ \A id \in {root} \cup Descendants(root) :
           Cardinality({i \in VisitIdx : trace[i].node = id}) = 1
    /\ \A p \in Nodes : \A c \in ChildSet(p) : Pos(p) < Pos(c)
    /\ \A p \in Nodes :
           LET below == Descendants(p)
               at == Pos(p)
           IN  {Pos(d) : d \in below}
                   = {i \in VisitIdx :
                         /\ i > at
                         /\ Cardinality({j \in VisitIdx : at < j /\ j <= i})
                                <= Cardinality(below)}

\* C1 as stated: a handler that returns false for a node with children
\* leaves every descendant of the node unvisited.
C1_FalsePrunes ==
    \A i \in AcceptVisits :
        (HasChildren(trace[i].node) /\ trace[i].ret = FALSE)
            => \A d \in Descendants(trace[i].node) : ~Visited(d)

\* C1 (amended): for every node kind that has children, if the visitor's
\* handler for the node returns true, accept visits none of its children,
\* so no handler is invoked on any descendant of the node.
C1_TruePrunes ==
    \A i \in AcceptVisits :
        (HasChildren(trace[i].node) /\ trace[i].ret = TRUE)
            => \A d \in Descendants(trace[i].node) : ~Visited(d)

\* A BinOp child with two operands was pruned while its siblings were not.
C1_Witness ==
    /\ ViaAccept
    /\ \E id \in Nodes \ {root} :
           /\ Visited(id) /\ trace[Pos(id)].ret = TRUE
           /\ Cardinality(ChildSet(id)) = 2
    /\ \E id \in Nodes \ {root} : Visited(id) /\ trace[Pos(id)].ret = FALSE

\* C2 as stated: a visitor whose every handler returns true walks the whole
\* tree in pre-order.
C2_AlwaysTrueWalksAll ==
    (ViaAccept /\ skipNodes = Nodes) => FullPreOrderWalk

\* C2 (amended): a visitor whose every handler returns false, started with
\* accept on the root of a tree, invokes a handler on every node exactly
\* once, each parent before its children, in pre-order.
C2_AlwaysFalseWalksAll ==
    (ViaAccept /\ skipNodes = {}) => FullPreOrderWalk

\* A three-level tree was walked by the never-skipping visitor.
C2_Witness ==
    /\ ViaAccept /\ skipNodes = {}
    /\ Cardinality(ChildSet(root)) >= 3
    /\ \E c \in ChildSet(root) : HasChildren(c)
    /\ Cardinality(VisitIdx) = Cardinality(Nodes)

\* C3: each accept call invokes exactly one handler on its node, the one
\* declared for the node's kind, and does so before any handler runs on a
\* descendant of the node.
C3_OneOwnHandlerFirst ==
    /\ \A i \in DOMAIN trace :
           trace[i].op = "accept" =>
               /\ i + 1 \in VisitIdx
               /\ trace[i + 1].node = trace[i].node
               /\ HandlerNodeType(trace[i + 1].handler) = ast[trace[i].node].kind
               /\ LET below == Descendants(trace[i].node)
                  IN  \A j \in VisitIdx : trace[j].node \in below => j > i + 1
    /\ \A j \in VisitIdx :
           /\ j > 1
           /\ trace[j - 1].op # "visit"
           /\ trace[j - 1].node = trace[j].node

\* accept on a Call with arguments ran visit_call and then its children's
\* handlers.
C3_Witness ==
    /\ ViaAccept
    /\ ast[root].kind = "Call"
    /\ trace[2].handler = "visit_call"
    /\ \E d \in Descendants(root) : Visited(d) /\ HasChildren(d)

\* C4: when accept descends into an assignment, the value and everything
\* visited below it come before the first target, and the targets follow
\* in list order.
C4_ValueThenTargets ==
    \A i \in AcceptVisits :
        LET a == ast[trace[i].node]
        IN  (a.kind = "Assign" /\ trace[i].ret = FALSE) =>
                /\ Visited(a.value) /\ Pos(a.value) > i
                /\ \A k \in 1..Len(a.targets) : Visited(a.targets[k])
                /\ \A x \in {a.value} \cup Descendants(a.value) :
                       (Visited(x) /\ Len(a.targets) > 0)
                           => Pos(x) < Pos(a.targets[1])
                /\ \A k \in 1..(Len(a.targets) - 1) :
                       \A x \in {a.targets[k]} \cup Descendants(a.targets[k]) :
                           Visited(x) => Pos(x) < Pos(a.targets[k + 1])

\* An assignment with a compound value and two targets was walked in full.
C4_Witness ==
    /\ ViaAccept /\ skipNodes = {}
    /\ ast[root].kind = "Assign"
    /\ Len(ast[root].targets) >= 2
    /\ HasChildren(ast[root].value)
    /\ Cardinality(VisitIdx) = Cardinality(Nodes)

\* The handler calls on the children of a node, in the order they happened.
RECURSIVE ChildVisits(_, _)
ChildVisits(id, i) ==
    IF i > Len(trace) THEN <<>>
    ELSE (IF i \in VisitIdx /\ trace[i].node \in ChildSet(id)
          THEN <<trace[i].node>> ELSE <<>>) \o ChildVisits(id, i + 1)

\* C5: when accept descends into a call, its children are visited in the
\* order callee, positional arguments, keyword arguments, star-args, kwargs;
\* an absent star-args or kwargs gets no handler call.
C5_CallOrder ==
    /\ \A i \in AcceptVisits :
           LET c == ast[trace[i].node]
           IN  (c.kind = "Call" /\ trace[i].ret = FALSE) =>
                   ChildVisits(trace[i].node, 1)
                       = <<c.func>> \o c.args \o c.keywords
                         \o (IF c.starargs = NULL THEN <<>> ELSE <<c.starargs>>)
                         \o (IF c.kwargs = NULL THEN <<>> ELSE <<c.kwargs>>)
    /\ \A i \in DOMAIN trace : trace[i].node \in Nodes

\* A call with two positional and two keyword arguments, star-args and no
\* kwargs was descended into.
C5_Witness ==
    /\ ViaAccept /\ root \notin skipNodes
    /\ ast[root].kind = "Call"
    /\ Len(ast[root].args) = 2 /\ Len(ast[root].keywords) = 2
    /\ ast[root].starargs # NULL /\ ast[root].kwargs = NULL
    /\ Len(ChildVisits(root, 1)) = 6

\* C6: accept_stmt on a statement invokes the statement handler of the
\* node's kind once and nothing else: no child is visited, and an invoke
\* statement gets visit_invoke without any dispatch to the wrapped statement.
C6_AcceptStmtOneHandler ==
    ViaAcceptStmt =>
        /\ Len(trace) = 2
        /\ trace[1].node = root
        /\ trace[2].op = "visit" /\ trace[2].node = root
        /\ HandlerNodeType(trace[2].handler) = ast[root].kind
        /\ \A d \in Descendants(root) : ~Visited(d)
        /\ ast[root].kind = "Invoke" =>
               trace[2].handler = "visit_invoke" /\ ~Visited(ast[root].stmt)

\* accept_stmt returned on an invoke statement that wraps a compound child.
C6_Witness ==
    /\ ViaAcceptStmt
    /\ ast[root].kind = "Invoke"
    /\ HasChildren(ast[root].stmt)

(***************************************************************************)
(* The operator resolver's laws, over OpSpec.                              *)
(***************************************************************************)
ArithmeticTags ==
    {"Add", "Sub", "Mult", "Div", "TrueDiv", "FloorDiv", "Mod", "Pow",
     "DivMod", "LShift", "RShift", "BitAnd", "BitOr", "BitXor"}

ComparisonTags == {"Eq", "NotEq", "Lt", "LtE", "Gt", "GtE"}

BinaryTags ==
    ArithmeticTags \cup ComparisonTags \cup {"In", "NotIn", "Is", "IsNot"}

\* The name with character c put right after its leading "__".
InsertAfterUnderscores(name, c) ==
    SubSeq(name, 1, 2) \o <<c>> \o SubSeq(name, 3, Len(name))

StartsWithUnderscores(name) ==
    Len(name) >= 2 /\ name[1] = "_" /\ name[2] = "_"

\* C7 as stated: getOpSymbol and getOpName return a non-empty string for
\* every operator tag and abort on none.
C7_EveryTagResolves ==
    (called \in {"getOpSymbol", "getOpName"} /\ op_type \in OperatorTags)
        => (~result.aborted /\ result.val # NullString)

\* C7 (amended): getOpSymbol returns a non-empty symbol for every operator
\* tag but And and Or, and getOpName a non-null, non-empty name for every
\* operator tag but Is, IsNot, NotIn, And and Or; on the excepted tags the
\* function aborts.
C7_MappedTagsResolve ==
    /\ (called = "getOpSymbol" /\ op_type \in OperatorTags) =>
           IF op_type \in {"And", "Or"} THEN result.aborted
           ELSE ~result.aborted /\ result.val # NullString
    /\ (called = "getOpName" /\ op_type \in OperatorTags) =>
           IF op_type \in {"Is", "IsNot", "NotIn", "And", "Or"}
           THEN result.aborted
           ELSE ~result.aborted /\ result.val # NullString

\* getOpName returned the name of unary minus.
C7_Witness ==
    /\ called = "getOpName" /\ op_type = "USub"
    /\ result = Returned(<<"_", "_", "n", "e", "g", "_", "_">>)

\* C8: for every binary tag getInplaceOpName is getOpName's name with 'i'
\* put right after the leading "__" (and aborts where getOpName aborts).
C8_InplaceDerivation ==
    (called = "getInplaceOpName" /\ op_type \in BinaryTags) =>
        LET name == getOpName(op_type, Statics, ndebug)
        IN  IF name.aborted THEN result.aborted
            ELSE /\ ~result.aborted
                 /\ StartsWithUnderscores(name.val)
                 /\ result.val = InsertAfterUnderscores(name.val, "i")

\* getInplaceOpName(Add) returned "__iadd__".
C8_Witness ==
    /\ called = "getInplaceOpName" /\ op_type = "Add"
    /\ result = Returned(<<"_", "_", "i", "a", "d", "d", "_", "_">>)

\* The swap of the six comparisons as the claim lists it.
SwappedComparison(op) ==
    CASE op = "Eq" -> "Eq"
      [] op = "NotEq" -> "NotEq"
      [] op = "Lt" -> "Gt"
      [] op = "Gt" -> "Lt"
      [] op = "LtE" -> "GtE"
      [] op = "GtE" -> "LtE"

\* C9: for a binary tag outside the six comparisons getReverseOpName is
\* getOpName's name with 'r' put right after the leading "__" (and aborts
\* where getOpName aborts); for the six comparisons it is getOpName of the
\* swapped tag, with no 'r'.
C9_ReverseDerivation ==
    (called = "getReverseOpName" /\ op_type \in BinaryTags) =>
        IF op_type \in ComparisonTags
        THEN LET name == getOpName(SwappedComparison(op_type), Statics, ndebug)
             IN  ~name.aborted /\ result = Returned(name.val)
        ELSE LET name == getOpName(op_type, Statics, ndebug)
             IN  IF name.aborted THEN result.aborted
                 ELSE /\ ~result.aborted
                      /\ StartsWithUnderscores(name.val)
                      /\ result.val = InsertAfterUnderscores(name.val, "r")

\* getReverseOpName(LtE) returned "__ge__".
C9_Witness ==
    /\ called = "getReverseOpName" /\ op_type = "LtE"
    /\ result = Returned(<<"_", "_", "g", "e", "_", "_">>)

\* C10: getReverseCmpOp maps Eq to Eq, NotEq to NotEq, Lt to Gt, Gt to Lt,
\* LtE to GtE and GtE to LtE with success, twice in a row gives the tag
\* back, and any other tag comes back unchanged without success.
C10_SwapTable ==
    called = "getReverseCmpOp" =>
        IF op_type \in ComparisonTags
        THEN /\ success
             /\ result = Returned(SwappedComparison(op_type))
             /\ getReverseCmpOp(result.val)
                    = [ret |-> op_type, success |-> TRUE]
        ELSE ~success /\ result = Returned(op_type)

\* getReverseCmpOp(LtE) returned GtE with success.
C10_Witness ==
    /\ called = "getReverseCmpOp" /\ op_type = "LtE"
    /\ result = Returned("GtE") /\ success

\* C11: getReverseOpName, getOpName and getInplaceOpName called with Is or
\* IsNot never return a name: the call ends in a failed assert or in abort,
\* in the build with assert and in the build without.
C11_IdentityIsFatal ==
    (/\ called \in {"getReverseOpName", "getOpName", "getInplaceOpName"}
     /\ op_type \in {"Is", "IsNot"})
        => (result.aborted /\ result.val = NullString)

\* getReverseOpName(IsNot) ended in abort in the build without assert.
C11_Witness ==
    /\ called = "getReverseOpName" /\ op_type = "IsNot"
    /\ ndebug /\ result.aborted

\* The tags each switch has a case for.
SymbolMappedTags == OperatorTags \ {"And", "Or"}
NameMappedTags == SymbolMappedTags \ {"Is", "IsNot", "NotIn"}

\* C12: called with a value its switch has no case for, each of getOpSymbol,
\* getInplaceOpSymbol, getOpName, getInplaceOpName and getReverseOpName
\* aborts the process; none returns a default, empty or null value.
C12_UnknownTagAborts ==
    /\ (/\ called \in {"getOpSymbol", "getInplaceOpSymbol"}
        /\ op_type \notin SymbolMappedTags) => result.aborted
    /\ (/\ called \in {"getOpName", "getInplaceOpName", "getReverseOpName"}
        /\ op_type \notin NameMappedTags) => result.aborted

\* getInplaceOpSymbol aborted on a value that is no operator tag.
C12_Witness ==
    /\ called = "getInplaceOpSymbol" /\ op_type \in OtherTags
    /\ result.aborted

\* ---------------------------------------------------------------------
\* getOpName called from several threads.  The function-local statics
\* are plain (non-atomic) variables and the check-then-initialize block
\* takes no lock, so each thread's steps interleave freely.
\* ---------------------------------------------------------------------

NumThreads == 2

Threads == 1 .. NumThreads

\* An initialization block that leaves out its last assignment.
SlotOrder_skipsLast ==
    <<"strAdd", "strBitAnd", "strBitOr", "strBitXor", "strDiv",
      "strTrueDiv", "strDivMod", "strEq", "strFloorDiv", "strLShift",
      "strLt", "strLtE", "strGt", "strGtE", "strIn",
      "strInvert", "strMod", "strMult", "strNot", "strNotEq",
      "strPow", "strRShift", "strSub", "strUAdd">>

\* The initialization block's assignments, in program order.
SlotOrder ==
    <<"strAdd", "strBitAnd", "strBitOr", "strBitXor", "strDiv",
      "strTrueDiv", "strDivMod", "strEq", "strFloorDiv", "strLShift",
      "strLt", "strLtE", "strGt", "strGtE", "strIn",
      "strInvert", "strMod", "strMult", "strNot", "strNotEq",
      "strPow", "strRShift", "strSub", "strUAdd", "strUSub">>

\* The tags the threads ask for: the first and the last slot assigned.
RaceTags == {"Add", "USub"}

ThreadIdle == [pc |-> "idle", op |-> "Add", next |-> 1, ret |-> NullString]

RaceInit ==
    /\ ast = <<>>
    /\ root = NULL
    /\ skipNodes = {}
    /\ pc = "idle"
    /\ trace = <<>>
    /\ op_type = "Add"
    /\ called = "getOpName"
    /\ result = Returned(NullString)
    /\ success = FALSE
    /\ initialized = FALSE
    /\ strSlot = [s \in SlotNames |-> NullString]
    /\ ndebug = FALSE
    /\ thr = [t \in Threads |-> ThreadIdle]
    /\ roots = <<>>
    /\ output = <<>>
    /\ output_in = <<>>
    /\ expand_scopes = TRUE
    /\ stream = <<>>
    /\ indent = 0
    /\ levels = <<>>

\* A thread enters getOpName: the two asserts.
ThreadCall ==
    \E t \in Threads, op \in RaceTags :
        /\ ~result.aborted
        /\ thr[t].pc = "idle"
        /\ IF ~ndebug /\ op \in {"Is", "IsNot"}
           THEN /\ thr' = [thr EXCEPT ![t].pc = "aborted", ![t].op = op]
                /\ result' = Aborted
           ELSE /\ thr' = [thr EXCEPT ![t].pc = "test", ![t].op = op]
                /\ UNCHANGED result
        /\ UNCHANGED <<op_type, called, success, initialized, strSlot, ndebug>>
        /\ UNCHANGED astVars
        /\ UNCHANGED <<flatVars, printVars>>

\* if (!initialized): the thread reads the flag.
ThreadTest ==
    \E t \in Threads :
        /\ ~result.aborted
        /\ thr[t].pc = "test"
        /\ thr' = [thr EXCEPT ![t].pc = IF initialized THEN "switch" ELSE "init",
                              ![t].next = 1]
        /\ UNCHANGED opVars
        /\ UNCHANGED astVars
        /\ UNCHANGED <<flatVars, printVars>>

\* One assignment of the initialization block.
ThreadAssign ==
    \E t \in Threads :
        /\ ~result.aborted
        /\ thr[t].pc = "init"
        /\ thr[t].next <= Len(SlotOrder)
        /\ strSlot' = [strSlot EXCEPT ![SlotOrder[thr[t].next]] =
                                          StaticStrings(SlotOrder[thr[t].next])]
        /\ thr' = [thr EXCEPT ![t].next = thr[t].next + 1]
        /\ UNCHANGED <<op_type, called, result, success, initialized, ndebug>>
        /\ UNCHANGED astVars
        /\ UNCHANGED <<flatVars, printVars>>

\* initialized = true, in program order: after the last assignment.
ThreadSetInitialized ==
    \E t \in Threads :
        /\ ~result.aborted
        /\ thr[t].pc = "init"
        /\ thr[t].next > Len(SlotOrder)
        /\ initialized' = TRUE
        /\ thr' = [thr EXCEPT ![t].pc = "switch"]
        /\ UNCHANGED <<op_type, called, result, success, strSlot, ndebug>>
        /\ UNCHANGED astVars
        /\ UNCHANGED <<flatVars, printVars>>

\* The flag and the slots are unsynchronized plain variables written by
\* one thread and read by another: a data race.  Nothing orders the
\* store to the flag after the stores to the slots as another thread
\* sees them, so the flag may become visible while slots are still
\* unset.
ThreadSetInitializedEarly ==
    \E t \in Threads :
        /\ ~result.aborted
        /\ thr[t].pc = "init"
        /\ thr[t].next <= Len(SlotOrder)
        /\ ~initialized
        /\ initialized' = TRUE
        /\ UNCHANGED thr
        /\ UNCHANGED <<op_type, called, result, success, strSlot, ndebug>>
        /\ UNCHANGED astVars
        /\ UNCHANGED <<flatVars, printVars>>

\* The switch: the thread returns the slot of its tag.
ThreadSwitch ==
    \E t \in Threads :
        /\ ~result.aborted
        /\ thr[t].pc = "switch"
        /\ IF OpNameSlot(thr[t].op) = ""
           THEN /\ thr' = [thr EXCEPT ![t].pc = "aborted"]
                /\ result' = Aborted
           ELSE /\ thr' = [thr EXCEPT ![t].pc = "done",
                                      ![t].ret = strSlot[OpNameSlot(thr[t].op)]]
                /\ UNCHANGED result
        /\ UNCHANGED <<op_type, called, success, initialized, strSlot, ndebug>>
        /\ UNCHANGED astVars
        /\ UNCHANGED <<flatVars, printVars>>

RaceNext ==
    \/ ThreadCall
    \/ ThreadTest
    \/ ThreadAssign
    \/ ThreadSetInitialized
    \/ ThreadSetInitializedEarly
    \/ ThreadSwitch

RaceSpec == RaceInit /\ [][RaceNext]_vars

\* C13: threads making their first calls to getOpName concurrently all
\* get the name of their tag: no call returns an unset (null) slot, and
\* two calls for one tag never return two different values.
C13_ConcurrentFirstCallsAgree ==
    \A t \in Threads :
        thr[t].pc = "done" =>
            /\ thr[t].ret # NullString
            /\ \A u \in Threads :
                   (thr[u].pc = "done" /\ thr[u].op = thr[t].op)
                       => thr[u].ret = thr[t].ret

\* ---------------------------------------------------------------------
\* FlattenVisitor and flatten.
\* ---------------------------------------------------------------------

\* FlattenVisitor's constructor: assert(expand_scopes && "...").
FlattenVisitor_ctor(expand, nd) == [aborted |-> ~nd /\ ~expand]

\* The node kinds FlattenVisitor has a handler for.
FlattenKinds ==
    {"alias", "arguments", "Assert", "Assign", "AugAssign", "AugBinOp",
     "Attribute", "BinOp", "BoolOp", "Break", "Call", "ClassDef",
     "Compare", "comprehension", "Continue", "Delete", "Dict",
     "DictComp", "Ellipsis", "ExceptHandler", "Exec", "Expr",
     "ExtSlice", "For", "FunctionDef", "GeneratorExp", "Global", "If",
     "IfExp", "Import", "ImportFrom", "Index", "Invoke", "keyword",
     "Lambda", "LangPrimitive", "List", "ListComp", "Module", "Name",
     "Num", "Pass", "Print", "Raise", "Repr", "Return", "Set",
     "SetComp", "Slice", "Str", "Subscript", "TryExcept", "TryFinally",
     "Tuple", "UnaryOp", "While", "With", "Yield", "ClsAttribute"}

\* FlattenVisitor's handlers: output->push_back(node), and the value
\* returned.
FlattenVisitor_visit(handler, expand) ==
    CASE handler = "visit_alias" -> [push |-> TRUE, skip |-> FALSE]
      [] handler = "visit_arguments" -> [push |-> TRUE, skip |-> FALSE]
      [] handler = "visit_assert" -> [push |-> TRUE, skip |-> FALSE]
      [] handler = "visit_assign" -> [push |-> TRUE, skip |-> FALSE]
      [] handler = "visit_augassign" -> [push |-> TRUE, skip |-> FALSE]
      [] handler = "visit_augbinop" -> [push |-> TRUE, skip |-> FALSE]
      [] handler = "visit_attribute" -> [push |-> TRUE, skip |-> FALSE]
      [] handler = "visit_binop" -> [push |-> TRUE, skip |-> FALSE]
      [] handler = "visit_boolop" -> [push |-> TRUE, skip |-> FALSE]
      [] handler = "visit_break" -> [push |-> TRUE, skip |-> FALSE]
      [] handler = "visit_call" -> [push |-> TRUE, skip |-> FALSE]
      [] handler = "visit_classdef" -> [push |-> TRUE, skip |-> ~expand]
      [] handler = "visit_compare" -> [push |-> TRUE, skip |-> FALSE]
      [] handler = "visit_comprehension" -> [push |-> TRUE, skip |-> FALSE]
      [] handler = "visit_continue" -> [push |-> TRUE, skip |-> FALSE]
      [] handler = "visit_delete" -> [push |-> TRUE, skip |-> FALSE]
      [] handler = "visit_dict" -> [push |-> TRUE, skip |-> FALSE]
      [] handler = "visit_dictcomp" -> [push |-> TRUE, skip |-> FALSE]
      [] handler = "visit_ellipsis" -> [push |-> TRUE, skip |-> FALSE]
      [] handler = "visit_excepthandler" -> [push |-> TRUE, skip |-> FALSE]
      [] handler = "visit_exec" -> [push |-> TRUE, skip |-> FALSE]
      [] handler = "visit_expr" -> [push |-> TRUE, skip |-> FALSE]
      [] handler = "visit_extslice" -> [push |-> TRUE, skip |-> FALSE]
      [] handler = "visit_for" -> [push |-> TRUE, skip |-> ~expand]
      [] handler = "visit_functiondef" -> [push |-> TRUE, skip |-> ~expand]
      [] handler = "visit_generatorexp" -> [push |-> TRUE, skip |-> ~expand]
      [] handler = "visit_global" -> [push |-> TRUE, skip |-> FALSE]
      [] handler = "visit_if" -> [push |-> TRUE, skip |-> FALSE]
      [] handler = "visit_ifexp" -> [push |-> TRUE, skip |-> FALSE]
      [] handler = "visit_import" -> [push |-> TRUE, skip |-> FALSE]
      [] handler = "visit_importfrom" -> [push |-> TRUE, skip |-> FALSE]
      [] handler = "visit_index" -> [push |-> TRUE, skip |-> FALSE]
      [] handler = "visit_invoke" -> [push |-> TRUE, skip |-> FALSE]
      [] handler = "visit_keyword" -> [push |-> TRUE, skip |-> FALSE]
      [] handler = "visit_lambda" -> [push |-> TRUE, skip |-> ~expand]
      [] handler = "visit_langprimitive" -> [push |-> TRUE, skip |-> FALSE]
      [] handler = "visit_list" -> [push |-> TRUE, skip |-> FALSE]
      [] handler = "visit_listcomp" -> [push |-> TRUE, skip |-> FALSE]
      [] handler = "visit_module" -> [push |-> TRUE, skip |-> ~expand]
      [] handler = "visit_name" -> [push |-> TRUE, skip |-> FALSE]
      [] handler = "visit_num" -> [push |-> TRUE, skip |-> FALSE]
      [] handler = "visit_pass" -> [push |-> TRUE, skip |-> FALSE]
      [] handler = "visit_print" -> [push |-> TRUE, skip |-> FALSE]
      [] handler = "visit_raise" -> [push |-> TRUE, skip |-> FALSE]
      [] handler = "visit_repr" -> [push |-> TRUE, skip |-> FALSE]
      [] handler = "visit_return" -> [push |-> TRUE, skip |-> FALSE]
      [] handler = "visit_set" -> [push |-> TRUE, skip |-> FALSE]
      [] handler = "visit_setcomp" -> [push |-> TRUE, skip |-> FALSE]
      [] handler = "visit_slice" -> [push |-> TRUE, skip |-> FALSE]
      [] handler = "visit_str" -> [push |-> TRUE, skip |-> FALSE]
      [] handler = "visit_subscript" -> [push |-> TRUE, skip |-> FALSE]
      [] handler = "visit_tryexcept" -> [push |-> TRUE, skip |-> FALSE]
      [] handler = "visit_tryfinally" -> [push |-> TRUE, skip |-> FALSE]
      [] handler = "visit_tuple" -> [push |-> TRUE, skip |-> FALSE]
      [] handler = "visit_unaryop" -> [push |-> TRUE, skip |-> FALSE]
      [] handler = "visit_while" -> [push |-> TRUE, skip |-> FALSE]
      [] handler = "visit_with" -> [push |-> TRUE, skip |-> FALSE]
      [] handler = "visit_yield" -> [push |-> TRUE, skip |-> FALSE]
      [] handler = "visit_clsattribute" -> [push |-> TRUE, skip |-> FALSE]

\* A FlattenVisitor walk that appends a node after its children.
RECURSIVE FlattenVisitor_accept_postOrder(_, _)
FlattenVisitor_accept_postOrder(id, expand) ==
    LET h == FlattenVisitor_visit(AST_accept(ast[id], FALSE).handler, expand)
        a == AST_accept(ast[id], h.skip)
    IN  Cat([i \in 1..Len(a.calls) |->
                FlattenVisitor_accept_postOrder(a.calls[i], expand)])
        \o (IF h.push THEN <<id>> ELSE <<>>)

\* node->accept(&visitor) with a FlattenVisitor: what it appends to the
\* output.
RECURSIVE FlattenVisitor_accept(_, _)
FlattenVisitor_accept(id, expand) ==
    LET h == FlattenVisitor_visit(AST_accept(ast[id], FALSE).handler, expand)
        a == AST_accept(ast[id], h.skip)
    IN  (IF h.push THEN <<id>> ELSE <<>>)
        \o Cat([i \in 1..Len(a.calls) |->
                   FlattenVisitor_accept(a.calls[i], expand)])

\* A flatten that empties the output vector before it walks the roots.
flatten_clearsOutput(rs, out, expand, nd) ==
    IF FlattenVisitor_ctor(expand, nd).aborted
    THEN [aborted |-> TRUE, output |-> out]
    ELSE [aborted |-> FALSE,
          output |-> Cat([i \in 1..Len(rs) |->
                             FlattenVisitor_accept(rs[i], expand)])]

\* A flatten that walks the roots from the last to the first.
flatten_lastRootFirst(rs, out, expand, nd) ==
    IF FlattenVisitor_ctor(expand, nd).aborted
    THEN [aborted |-> TRUE, output |-> out]
    ELSE [aborted |-> FALSE,
          output |-> out \o Cat([i \in 1..Len(rs) |->
                          FlattenVisitor_accept(rs[Len(rs) + 1 - i], expand)])]

\* flatten(llvm::ArrayRef<AST_stmt*> roots, output, expand_scopes).
flatten(rs, out, expand, nd) ==
    IF FlattenVisitor_ctor(expand, nd).aborted
    THEN [aborted |-> TRUE, output |-> out]
    ELSE [aborted |-> FALSE,
          output |-> out \o Cat([i \in 1..Len(rs) |->
                                    FlattenVisitor_accept(rs[i], expand)])]

\* flatten(AST_expr* root, output, expand_scopes).
flatten_expr(r, out, expand, nd) ==
    IF FlattenVisitor_ctor(expand, nd).aborted
    THEN [aborted |-> TRUE, output |-> out]
    ELSE [aborted |-> FALSE,
          output |-> out \o FlattenVisitor_accept(r, expand)]

\* The root lists handed to flatten: the tree's root alone, or one of the
\* root's vectors (as in flatten(node->body, ...)).
RootLists(heap) ==
    {<<1>>} \cup {heap[1][f] : f \in ListFields(heap[1].kind)}

\* What the caller's output vector may hold before the call.
OutputsBefore == {<<>>, <<1>>}

FlattenInit ==
    /\ ast \in {t \in Trees : t[1].kind \in FlattenKinds}
    /\ root = 1
    /\ skipNodes = {}
    /\ pc = "idle"
    /\ trace = <<>>
    /\ op_type = "Add"
    /\ called = ""
    /\ result = Returned(NullString)
    /\ success = FALSE
    /\ initialized = FALSE
    /\ strSlot = [s \in SlotNames |-> NullString]
    /\ ndebug \in BOOLEAN
    /\ thr = <<>>
    /\ roots \in RootLists(ast)
    /\ output \in OutputsBefore
    /\ output_in = output
    /\ expand_scopes \in BOOLEAN
    /\ stream = <<>>
    /\ indent = 0
    /\ levels = <<>>

\* A call of flatten over the list of roots.
Flatten ==
    LET r == flatten(roots, output, expand_scopes, ndebug)
    IN  /\ pc = "idle"
        /\ pc' = IF r.aborted THEN "aborted" ELSE "flattened"
        /\ called' = "flatten"
        /\ output' = r.output
        /\ UNCHANGED <<ast, root, skipNodes, trace>>
        /\ UNCHANGED <<op_type, result, success, initialized, strSlot, ndebug>>
        /\ UNCHANGED <<roots, output_in, expand_scopes>>
        /\ UNCHANGED <<thrVars, printVars>>

\* A call of flatten over the single root.
FlattenExpr ==
    LET r == flatten_expr(root, output, expand_scopes, ndebug)
    IN  /\ pc = "idle"
        /\ pc' = IF r.aborted THEN "aborted" ELSE "flattened"
        /\ called' = "flatten_expr"
        /\ output' = r.output
        /\ UNCHANGED <<ast, root, skipNodes, trace>>
        /\ UNCHANGED <<op_type, result, success, initialized, strSlot, ndebug>>
        /\ UNCHANGED <<roots, output_in, expand_scopes>>
        /\ UNCHANGED <<thrVars, printVars>>

FlattenNext ==
    \/ Flatten
    \/ FlattenExpr

FlattenSpec == FlattenInit /\ [][FlattenNext]_vars

\* What the call appended to the caller's output vector.
Appended == SubSeq(output, Len(output_in) + 1, Len(output))

AppendedSet == {Appended[i] : i \in DOMAIN Appended}

\* The roots the call was given.
CalledRoots == IF called = "flatten_expr" THEN <<root>> ELSE roots

IndexIn(seq, x) == CHOOSE i \in DOMAIN seq : seq[i] = x

Subtree(id) == {id} \cup Descendants(id)

\* The kinds that introduce a lexical scope.
ScopeKinds ==
    {"FunctionDef", "ClassDef", "Lambda", "ListComp", "SetComp", "DictComp",
     "GeneratorExp", "Module"}

\* The nodes inside the scope a boundary node introduces: the body of a
\* function, class, lambda or module, and everything under a
\* comprehension or generator expression.
ScopeBody(id) ==
    LET n == ast[id]
    IN  IF n.kind \in {"FunctionDef", "ClassDef", "Module"}
        THEN UNION {Subtree(n.body[i]) : i \in DOMAIN n.body}
        ELSE IF n.kind = "Lambda" THEN Subtree(n.body)
        ELSE Descendants(id)

\* C14: flatten of a single function-definition root with expand_scopes
\* false completes and appends the function node and no node of its body;
\* with expand_scopes true and a non-empty body a body node is appended.
C14_FunctionDefBoundary ==
    (/\ pc \in {"flattened", "aborted"}
     /\ CalledRoots = <<1>>
     /\ ast[1].kind = "FunctionDef")
        => IF ~expand_scopes
           THEN /\ pc = "flattened"
                /\ 1 \in AppendedSet
                /\ ScopeBody(1) \cap AppendedSet = {}
           ELSE ast[1].body # <<>>
                    => (pc = "flattened" /\ ScopeBody(1) \cap AppendedSet # {})

\* C15: with expand_scopes false, flatten prunes at exactly the scope
\* kinds: a boundary node is appended and no node of its scope body is,
\* and every appended node of another kind has all its children appended.
C15_PrunesExactlyAtScopes ==
    (pc = "flattened" /\ ~expand_scopes)
        => /\ \A i \in DOMAIN CalledRoots : CalledRoots[i] \in AppendedSet
           /\ \A n \in AppendedSet :
                  IF ast[n].kind \in ScopeKinds
                  THEN ScopeBody(n) \cap AppendedSet = {}
                  ELSE ChildSet(n) \subseteq AppendedSet

\* The nodes a trace visits, in order.
VisitedNodes(tr) ==
    LET v == SelectSeq(tr, LAMBDA e : e.op = "visit")
    IN  [i \in 1..Len(v) |-> v[i].node]

\* C16: with expand_scopes true, flatten appends the nodes of the roots'
\* trees in the order a never-pruning visitor visits them through accept,
\* every node exactly once and each node before its children.
C16_ExpandedIsPreOrder ==
    (pc = "flattened" /\ expand_scopes /\ skipNodes = {})
        => /\ Appended = Cat([i \in 1..Len(CalledRoots) |->
                                 VisitedNodes(accept(CalledRoots[i]))])
           /\ AppendedSet = UNION {Subtree(CalledRoots[i]) :
                                      i \in DOMAIN CalledRoots}
           /\ \A i, j \in DOMAIN Appended :
                  Appended[i] = Appended[j] => i = j
           /\ \A n \in AppendedSet : \A c \in ChildSet(n) :
                  IndexIn(Appended, n) < IndexIn(Appended, c)

C16_Witness ==
    /\ pc = "flattened" /\ expand_scopes /\ called = "flatten_expr"
    /\ ast[root].kind = "Lambda"
    /\ ast[ast[root].body].kind = "BinOp"
    /\ Len(Appended) > 3

\* C17: with expand_scopes true, flatten over a list of roots appends the
\* concatenation, in order, of what flatten appends for each root alone:
\* every node of one root's tree precedes every node of the next root's.
C17_Concatenation ==
    (pc = "flattened" /\ called = "flatten" /\ expand_scopes)
        => /\ Appended = Cat([i \in 1..Len(roots) |->
                                 flatten(<<roots[i]>>, <<>>, TRUE, ndebug).output])
           /\ \A i \in 1..(Len(roots) - 1) :
                  \A m \in Subtree(roots[i]), n \in Subtree(roots[i + 1]) :
                      /\ m \in AppendedSet
                      /\ n \in AppendedSet
                      /\ IndexIn(Appended, m) < IndexIn(Appended, n)

C17_Witness ==
    /\ pc = "flattened" /\ called = "flatten" /\ expand_scopes
    /\ Len(roots) = MaxLen
    /\ ast[roots[1]].kind = "BinOp"
    /\ output_in # <<>>

\* ---------------------------------------------------------------------
\* ASTPrintVisitor and print_ast.  A handler's body is written as the
\* sequence of things it does, in order: text sent to the stream, calls
\* of printIndent, changes of indent, child->accept(this) calls, and
\* failed assertions.  Exec runs such a sequence on the visitor's state.
\* ---------------------------------------------------------------------

\* The character U+0060, which a string of this notation cannot hold.
Backquote == "backquote"

\* stream << text
Txt(s) == <<<<"s", s>>>>

\* child->accept(this)
Visit(id) == <<<<"a", id>>>>

\* printIndent()
CallPrintIndent == <<<<"i">>>>

\* indent += d, in the handler of node id
AddIndent(id, d) == <<<<"d", d, id>>>>

\* ASSERT(0, ...) (debugOnly) or RELEASE_ASSERT(0, ...)
Fail(debugOnly) == <<<<"x", debugOnly>>>>

\* for (i = 0; i < vec.size(); i++) body
Loop(vec, body(_)) == Cat([i \in 1..Len(vec) |-> body(i)])

\* if (i > 0) stream << s
Sep(i, s) == IF i > 1 THEN Txt(s) ELSE <<>>

\* stream << n for a non-negative integer: its decimal digits.
RECURSIVE DecimalText(_)
DecimalText(n) ==
    LET digit == <<<<"0", "1", "2", "3", "4", "5", "6", "7", "8", "9">>[(n % 10) + 1]>>
    IN  IF n < 10 THEN digit ELSE DecimalText(n \div 10) \o digit

\* The opcodes visit_langprimitive names.
LangPrimitiveOpcodes ==
    {"CHECK_EXC_MATCH", "LANDINGPAD", "LOCALS", "GET_ITER", "IMPORT_FROM",
     "IMPORT_NAME", "IMPORT_STAR", "NONE", "NONZERO", "SET_EXC_INFO",
     "UNCACHE_EXC_INFO", "HASNEXT", "PRINT_EXPR"}

OpcodeText(opcode) ==
    CASE opcode = "CHECK_EXC_MATCH" -> <<"C", "H", "E", "C", "K", "_", "E", "X", "C", "_", "M", "A", "T", "C", "H">>
      [] opcode = "LANDINGPAD" -> <<"L", "A", "N", "D", "I", "N", "G", "P", "A", "D">>
      [] opcode = "LOCALS" -> <<"L", "O", "C", "A", "L", "S">>
      [] opcode = "GET_ITER" -> <<"G", "E", "T", "_", "I", "T", "E", "R">>
      [] opcode = "IMPORT_FROM" -> <<"I", "M", "P", "O", "R", "T", "_", "F", "R", "O", "M">>
      [] opcode = "IMPORT_NAME" -> <<"I", "M", "P", "O", "R", "T", "_", "N", "A", "M", "E">>
      [] opcode = "IMPORT_STAR" -> <<"I", "M", "P", "O", "R", "T", "_", "S", "T", "A", "R">>
      [] opcode = "NONE" -> <<"N", "O", "N", "E">>
      [] opcode = "NONZERO" -> <<"N", "O", "N", "Z", "E", "R", "O">>
      [] opcode = "SET_EXC_INFO" -> <<"S", "E", "T", "_", "E", "X", "C", "_", "I", "N", "F", "O">>
      [] opcode = "UNCACHE_EXC_INFO" -> <<"U", "N", "C", "A", "C", "H", "E", "_", "E", "X", "C", "_", "I", "N", "F", "O">>
      [] opcode = "HASNEXT" -> <<"H", "A", "S", "N", "E", "X", "T">>
      [] opcode = "PRINT_EXPR" -> <<"P", "R", "I", "N", "T", "_", "E", "X", "P", "R">>

\* printOp: the text for an operator tag.  The default case prints the
\* tag's enumeration value as a number between angle brackets; the number
\* is kept as one token holding the tag.
printOp(op) ==
    CASE op = "Add" -> <<"+">>
      [] op = "BitAnd" -> <<"&">>
      [] op = "BitOr" -> <<"|">>
      [] op = "BitXor" -> <<"^">>
      [] op = "Div" -> <<"/">>
      [] op = "LShift" -> <<"<", "<">>
      [] op = "RShift" -> <<">", ">">>
      [] op = "Pow" -> <<"*", "*">>
      [] op = "Mod" -> <<"%">>
      [] op = "Mult" -> <<"*">>
      [] op = "Sub" -> <<"-">>
      [] OTHER -> <<"<", op, ">">>

\* A visit_pass that prints nothing.
visit_pass_silent(id) == [ops |-> <<>>, ret |-> TRUE]

visit_pass(id) == [ops |-> Txt(<<"p", "a", "s", "s">>), ret |-> TRUE]

\* A visit_if that leaves the else-branch's indentation raised.
visit_if_elseStaysIndented(id) ==
    LET n == ast[id]
    IN  [ops |-> Txt(<<"i", "f", " ">>) \o Visit(n.test) \o Txt(<<":", "\n">>)
                 \o AddIndent(id, 4)
                 \o Loop(n.body, LAMBDA i :
                         CallPrintIndent \o Visit(n.body[i]) \o Txt(<<"\n">>))
                 \o AddIndent(id, 0 - 4)
                 \o (IF Len(n.orelse) > 0
                     THEN CallPrintIndent \o Txt(<<"e", "l", "s", "e", ":", "\n">>) \o AddIndent(id, 4)
                          \o Loop(n.orelse, LAMBDA i :
                                  Sep(i, <<"\n">>) \o CallPrintIndent
                                  \o Visit(n.orelse[i]))
                     ELSE <<>>),
         ret |-> TRUE]

\* A visit_if that renders its children and lets accept visit them too.
visit_if_returnsFalse(id) ==
    LET n == ast[id]
        elif == Len(n.orelse) = 1 /\ ast[n.orelse[1]].kind = "If"
    IN  [ops |-> Txt(<<"i", "f", " ">>) \o Visit(n.test) \o Txt(<<":", "\n">>)
                 \o AddIndent(id, 4)
                 \o Loop(n.body, LAMBDA i :
                         CallPrintIndent \o Visit(n.body[i]) \o Txt(<<"\n">>))
                 \o AddIndent(id, 0 - 4)
                 \o (IF Len(n.orelse) > 0
                     THEN CallPrintIndent
                          \o (IF elif THEN Txt(<<"e", "l">>)
                              ELSE Txt(<<"e", "l", "s", "e", ":", "\n">>) \o AddIndent(id, 4))
                          \o Loop(n.orelse, LAMBDA i :
                                  Sep(i, <<"\n">>) \o CallPrintIndent
                                  \o Visit(n.orelse[i]))
                          \o (IF ~elif THEN AddIndent(id, 0 - 4) ELSE <<>>)
                     ELSE <<>>),
         ret |-> FALSE]

visit_if(id) ==
    LET n == ast[id]
        elif == Len(n.orelse) = 1 /\ ast[n.orelse[1]].kind = "If"
    IN  [ops |-> Txt(<<"i", "f", " ">>) \o Visit(n.test) \o Txt(<<":", "\n">>)
                 \o AddIndent(id, 4)
                 \o Loop(n.body, LAMBDA i :
                         CallPrintIndent \o Visit(n.body[i]) \o Txt(<<"\n">>))
                 \o AddIndent(id, 0 - 4)
                 \o (IF Len(n.orelse) > 0
                     THEN CallPrintIndent
                          \o (IF elif THEN Txt(<<"e", "l">>)
                              ELSE Txt(<<"e", "l", "s", "e", ":", "\n">>) \o AddIndent(id, 4))
                          \o Loop(n.orelse, LAMBDA i :
                                  Sep(i, <<"\n">>) \o CallPrintIndent
                                  \o Visit(n.orelse[i]))
                          \o (IF ~elif THEN AddIndent(id, 0 - 4) ELSE <<>>)
                     ELSE <<>>),
         ret |-> TRUE]

\* ASTPrintVisitor's handlers: what each does and the value it returns.
ASTPrintVisitor_visit(id) ==
    LET n == ast[id]
        h == AST_accept(n, FALSE).handler
    IN  CASE h = "visit_alias" ->
            [ops |-> Txt(n.name) \o (IF Len(n.asname) > 0 THEN Txt(<<" ", "a", "s", " ">>) \o Txt(n.asname) ELSE <<>>),
             ret |-> TRUE]
          [] h = "visit_arguments" ->
            [ops |-> Loop(n.args, LAMBDA i :
                   Sep(i, <<",", " ">>) \o Visit(n.args[i])
                   \o (IF i - 1 >= Len(n.args) - Len(n.defaults)
                       THEN Txt(<<"=">>) \o Visit(n.defaults[i - (Len(n.args) - Len(n.defaults))])
                       ELSE <<>>)),
             ret |-> TRUE]
          [] h = "visit_assert" ->
            [ops |-> Txt(<<"a", "s", "s", "e", "r", "t", " ">>) \o Visit(n.test) \o (IF n.msg # NULL THEN Txt(<<",", " ">>) \o Visit(n.msg) ELSE <<>>),
             ret |-> TRUE]
          [] h = "visit_assign" ->
            [ops |-> Loop(n.targets, LAMBDA i : Visit(n.targets[i]) \o Txt(<<" ", "=", " ">>)) \o Visit(n.value),
             ret |-> TRUE]
          [] h = "visit_augassign" ->
            [ops |-> Visit(n.target) \o Txt(printOp(n.op_type)) \o Txt(<<"=">>) \o Visit(n.value),
             ret |-> TRUE]
          [] h = "visit_augbinop" ->
            [ops |-> Visit(n.left) \o Txt(<<"=">>) \o Txt(printOp(n.op_type)) \o Visit(n.right),
             ret |-> TRUE]
          [] h = "visit_attribute" ->
            [ops |-> Visit(n.value) \o Txt(<<".">>) \o Txt(n.attr),
             ret |-> TRUE]
          [] h = "visit_binop" ->
            [ops |-> Visit(n.left) \o Txt(printOp(n.op_type)) \o Visit(n.right),
             ret |-> TRUE]
          [] h = "visit_boolop" ->
            [ops |-> Loop(n.values, LAMBDA i :
                   Visit(n.values[i])
                   \o (IF i = Len(n.values) THEN <<>>
                       ELSE IF n.op_type = "And" THEN Txt(<<" ", "a", "n", "d", " ">>)
                       ELSE IF n.op_type = "Or" THEN Txt(<<" ", "o", "r", " ">>)
                       ELSE Fail(TRUE))),
             ret |-> TRUE]
          [] h = "visit_break" ->
            [ops |-> Txt(<<"b", "r", "e", "a", "k">>),
             ret |-> TRUE]
          [] h = "visit_call" ->
            [ops |-> Visit(n.func) \o Txt(<<"(">>)
               \o Loop(n.args, LAMBDA i : Sep(i, <<",", " ">>) \o Visit(n.args[i]))
               \o Loop(n.keywords, LAMBDA i :
                       (IF i > 1 \/ Len(n.args) > 0 THEN Txt(<<",", " ">>) ELSE <<>>)
                       \o Visit(n.keywords[i]))
               \o (IF n.starargs # NULL
                   THEN (IF Len(n.args) + Len(n.keywords) > 0 THEN Txt(<<",", " ">>) ELSE <<>>)
                        \o Visit(n.starargs)
                   ELSE <<>>)
               \o (IF n.kwargs # NULL
                   THEN (IF Len(n.args) + Len(n.keywords) > 0 \/ n.starargs # NULL
                         THEN Txt(<<",", " ">>) ELSE <<>>)
                        \o Visit(n.kwargs)
                   ELSE <<>>)
               \o Txt(<<")">>),
             ret |-> TRUE]
          [] h = "visit_compare" ->
            [ops |-> Visit(n.left)
               \o Loop(n.ops, LAMBDA i :
                       IF getOpSymbol(n.ops[i]).aborted THEN Fail(FALSE)
                       ELSE Txt(<<" ">>) \o Txt(getOpSymbol(n.ops[i]).val) \o Txt(<<" ">>)
                            \o Visit(n.comparators[i])),
             ret |-> TRUE]
          [] h = "visit_comprehension" ->
            [ops |-> Txt(<<"f", "o", "r", " ">>) \o Visit(n.target) \o Txt(<<" ", "i", "n", " ">>) \o Visit(n.iter)
               \o Loop(n.ifs, LAMBDA i : Txt(<<" ", "i", "f", " ">>) \o Visit(n.ifs[i])),
             ret |-> TRUE]
          [] h = "visit_classdef" ->
            [ops |-> Loop(n.decorator_list, LAMBDA i :
                   Txt(<<"@">>) \o Visit(n.decorator_list[i]) \o Txt(<<"\n">>) \o CallPrintIndent)
               \o Txt(<<"c", "l", "a", "s", "s", " ">>) \o Txt(n.name) \o Txt(<<"(">>)
               \o Loop(n.bases, LAMBDA i : Sep(i, <<",", " ">>) \o Visit(n.bases[i]))
               \o Txt(<<")">>)
               \o AddIndent(id, 4)
               \o Loop(n.body, LAMBDA i :
                       Txt(<<"\n">>) \o CallPrintIndent \o Visit(n.body[i]))
               \o AddIndent(id, 0 - 4),
             ret |-> TRUE]
          [] h = "visit_continue" ->
            [ops |-> Txt(<<"c", "o", "n", "t", "i", "n", "u", "e">>),
             ret |-> TRUE]
          [] h = "visit_delete" ->
            [ops |-> Txt(<<"d", "e", "l", " ">>) \o Loop(n.targets, LAMBDA i : Sep(i, <<",", " ">>) \o Visit(n.targets[i])),
             ret |-> TRUE]
          [] h = "visit_dict" ->
            [ops |-> Txt(<<"{">>)
               \o Loop(n.keys, LAMBDA i :
                       Sep(i, <<",", " ">>) \o Visit(n.keys[i]) \o Txt(<<":">>) \o Visit(n.values[i]))
               \o Txt(<<"}">>),
             ret |-> TRUE]
          [] h = "visit_dictcomp" ->
            [ops |-> Txt(<<"{">>) \o Visit(n.key) \o Txt(<<":">>) \o Visit(n.value)
               \o Loop(n.generators, LAMBDA i : Txt(<<" ">>) \o Visit(n.generators[i]))
               \o Txt(<<"}">>),
             ret |-> TRUE]
          [] h = "visit_ellipsis" ->
            [ops |-> Txt(<<".", ".", ".">>),
             ret |-> TRUE]
          [] h = "visit_excepthandler" ->
            [ops |-> Txt(<<"e", "x", "c", "e", "p", "t">>)
               \o (IF n.type # NULL THEN Txt(<<" ">>) \o Visit(n.type) ELSE <<>>)
               \o (IF n.name # NULL THEN Txt(<<" ", "a", "s", " ">>) \o Visit(n.name) ELSE <<>>)
               \o Txt(<<":", "\n">>)
               \o AddIndent(id, 4)
               \o Loop(n.body, LAMBDA i :
                       CallPrintIndent \o Visit(n.body[i]) \o Txt(<<"\n">>))
               \o AddIndent(id, 0 - 4),
             ret |-> TRUE]
          [] h = "visit_exec" ->
            [ops |-> Txt(<<"e", "x", "e", "c", " ">>) \o Visit(n.body)
               \o (IF n.globals # NULL
                   THEN Txt(<<" ", "i", "n", " ">>) \o Visit(n.globals)
                        \o (IF n.locals # NULL THEN Txt(<<",", " ">>) \o Visit(n.locals) ELSE <<>>)
                   ELSE <<>>)
               \o Txt(<<"\n">>),
             ret |-> TRUE]
          [] h = "visit_expr" ->
            [ops |-> <<>>,
             ret |-> FALSE]
          [] h = "visit_extslice" ->
            [ops |-> Loop(n.dims, LAMBDA i : Sep(i, <<",", " ">>) \o Visit(n.dims[i])),
             ret |-> TRUE]
          [] h = "visit_for" ->
            [ops |-> Txt(<<"<", "f", "o", "r", " ", "l", "o", "o", "p", ">", "\n">>),
             ret |-> TRUE]
          [] h = "visit_functiondef" ->
            [ops |-> Loop(n.decorator_list, LAMBDA i :
                   Txt(<<"@">>) \o Visit(n.decorator_list[i]) \o Txt(<<"\n">>) \o CallPrintIndent)
               \o Txt(<<"d", "e", "f", " ">>)
               \o (IF n.name # NullString THEN Txt(n.name) ELSE Txt(<<"<", "l", "a", "m", "b", "d", "a", ">">>))
               \o Txt(<<"(">>) \o Visit(n.args) \o Txt(<<")">>)
               \o AddIndent(id, 4)
               \o Loop(n.body, LAMBDA i :
                       Txt(<<"\n">>) \o CallPrintIndent \o Visit(n.body[i]))
               \o AddIndent(id, 0 - 4),
             ret |-> TRUE]
          [] h = "visit_generatorexp" ->
            [ops |-> Txt(<<"[">>) \o Visit(n.elt)
               \o Loop(n.generators, LAMBDA i : Txt(<<" ">>) \o Visit(n.generators[i]))
               \o Txt(<<"]">>),
             ret |-> TRUE]
          [] h = "visit_global" ->
            [ops |-> Txt(<<"g", "l", "o", "b", "a", "l", " ">>) \o Loop(n.names, LAMBDA i : Sep(i, <<",", " ">>) \o Txt(n.names[i])),
             ret |-> TRUE]
          [] h = "visit_if" ->
            visit_if(id)
          [] h = "visit_ifexp" ->
            [ops |-> Visit(n.body) \o Txt(<<" ", "i", "f", " ">>) \o Visit(n.test) \o Txt(<<" ", "e", "l", "s", "e", " ">>) \o Visit(n.orelse),
             ret |-> TRUE]
          [] h = "visit_import" ->
            [ops |-> Txt(<<"i", "m", "p", "o", "r", "t", " ">>) \o Loop(n.names, LAMBDA i : Sep(i, <<",", " ">>) \o Visit(n.names[i])),
             ret |-> TRUE]
          [] h = "visit_importfrom" ->
            [ops |-> Txt(<<"f", "r", "o", "m", " ">>) \o Txt(n.module) \o Txt(<<" ", "i", "m", "p", "o", "r", "t", " ">>)
               \o Loop(n.names, LAMBDA i : Sep(i, <<",", " ">>) \o Visit(n.names[i])),
             ret |-> TRUE]
          [] h = "visit_index" ->
            [ops |-> <<>>,
             ret |-> FALSE]
          [] h = "visit_invoke" ->
            [ops |-> Txt(<<"i", "n", "v", "o", "k", "e", " ">>) \o Txt(DecimalText(n.normal_dest)) \o Txt(<<" ">>)
               \o Txt(DecimalText(n.exc_dest)) \o Txt(<<":", " ">>) \o Visit(n.stmt),
             ret |-> TRUE]
          [] h = "visit_lambda" ->
            [ops |-> Txt(<<"l", "a", "m", "b", "d", "a", " ">>) \o Visit(n.args) \o Txt(<<":", " ">>) \o Visit(n.body),
             ret |-> TRUE]
          [] h = "visit_langprimitive" ->
            [ops |-> Txt(<<":">>)
               \o (IF n.opcode \in LangPrimitiveOpcodes THEN Txt(OpcodeText(n.opcode))
                   ELSE Fail(FALSE))
               \o Txt(<<"(">>)
               \o Loop(n.args, LAMBDA i : Sep(i, <<",", " ">>) \o Visit(n.args[i]))
               \o Txt(<<")">>),
             ret |-> TRUE]
          [] h = "visit_list" ->
            [ops |-> Txt(<<"[">>) \o Loop(n.elts, LAMBDA i : Sep(i, <<",", " ">>) \o Visit(n.elts[i])) \o Txt(<<"]">>),
             ret |-> TRUE]
          [] h = "visit_listcomp" ->
            [ops |-> Txt(<<"[">>) \o Visit(n.elt)
               \o Loop(n.generators, LAMBDA i : Txt(<<" ">>) \o Visit(n.generators[i]))
               \o Txt(<<"]">>),
             ret |-> TRUE]
          [] h = "visit_keyword" ->
            [ops |-> Txt(n.arg) \o Txt(<<"=">>) \o Visit(n.value),
             ret |-> TRUE]
          [] h = "visit_module" ->
            [ops |-> Loop(n.body, LAMBDA i : Visit(n.body[i]) \o Txt(<<"\n">>)),
             ret |-> TRUE]
          [] h = "visit_expression" ->
            [ops |-> Visit(n.body) \o Txt(<<"\n">>),
             ret |-> TRUE]
          [] h = "visit_suite" ->
            [ops |-> Loop(n.body, LAMBDA i : CallPrintIndent \o Visit(n.body[i]) \o Txt(<<"\n">>)),
             ret |-> TRUE]
          [] h = "visit_name" ->
            [ops |-> Txt(n.id),
             ret |-> FALSE]
          [] h = "visit_num" ->
            [ops |-> IF n.num_type = "INT" THEN Txt(DecimalText(n.n_int))
               ELSE IF n.num_type = "LONG" THEN Txt(DecimalText(n.n_long)) \o Txt(<<"L">>)
               ELSE IF n.num_type = "FLOAT" THEN Txt(DecimalText(n.n_float))
               ELSE IF n.num_type = "COMPLEX" THEN Txt(DecimalText(n.n_float)) \o Txt(<<"j">>)
               ELSE Fail(FALSE),
             ret |-> FALSE]
          [] h = "visit_pass" ->
            visit_pass(id)
          [] h = "visit_print" ->
            [ops |-> Txt(<<"p", "r", "i", "n", "t", " ">>)
               \o (IF n.dest # NULL THEN Txt(<<">", ">">>) \o Visit(n.dest) \o Txt(<<",", " ">>) ELSE <<>>)
               \o Loop(n.values, LAMBDA i : Sep(i, <<",", " ">>) \o Visit(n.values[i]))
               \o (IF ~n.nl THEN Txt(<<",">>) ELSE <<>>),
             ret |-> TRUE]
          [] h = "visit_raise" ->
            [ops |-> Txt(<<"r", "a", "i", "s", "e">>)
               \o (IF n.arg0 # NULL THEN Txt(<<" ">>) \o Visit(n.arg0) ELSE <<>>)
               \o (IF n.arg1 # NULL THEN Txt(<<",", " ">>) \o Visit(n.arg1) ELSE <<>>)
               \o (IF n.arg2 # NULL THEN Txt(<<",", " ">>) \o Visit(n.arg2) ELSE <<>>),
             ret |-> TRUE]
          [] h = "visit_repr" ->
            [ops |-> Txt(<<Backquote>>) \o Visit(n.value) \o Txt(<<Backquote>>),
             ret |-> TRUE]
          [] h = "visit_return" ->
            [ops |-> Txt(<<"r", "e", "t", "u", "r", "n", " ">>),
             ret |-> FALSE]
          [] h = "visit_set" ->
            [ops |-> (IF Len(n.elts) = 0 THEN Txt(<<"S", "E", "T">>) ELSE <<>>)
               \o Txt(<<"{">>)
               \o Loop(n.elts, LAMBDA i : Sep(i, <<",", " ">>) \o Visit(n.elts[i]))
               \o Txt(<<"}">>),
             ret |-> TRUE]
          [] h = "visit_setcomp" ->
            [ops |-> Txt(<<"{">>) \o Visit(n.elt)
               \o Loop(n.generators, LAMBDA i : Txt(<<" ">>) \o Visit(n.generators[i]))
               \o Txt(<<"}">>),
             ret |-> TRUE]
          [] h = "visit_slice" ->
            [ops |-> Txt(<<"<", "s", "l", "i", "c", "e", ">", "(">>)
               \o (IF n.lower # NULL THEN Visit(n.lower) ELSE <<>>)
               \o (IF n.upper # NULL \/ n.step # NULL THEN Txt(<<":">>) ELSE <<>>)
               \o (IF n.upper # NULL THEN Visit(n.upper) ELSE <<>>)
               \o (IF n.step # NULL THEN Txt(<<":">>) \o Visit(n.step) ELSE <<>>)
               \o Txt(<<")">>),
             ret |-> TRUE]
          [] h = "visit_str" ->
            [ops |-> IF n.str_type = "STR" THEN Txt(<<"\"">>) \o Txt(n.str_data) \o Txt(<<"\"">>)
               ELSE IF n.str_type = "UNICODE" THEN Txt(<<"<", "u", "n", "i", "c", "o", "d", "e", " ", "v", "a", "l", "u", "e", ">">>)
               ELSE Fail(FALSE),
             ret |-> FALSE]
          [] h = "visit_subscript" ->
            [ops |-> Visit(n.value) \o Txt(<<"[">>) \o Visit(n.slice) \o Txt(<<"]">>),
             ret |-> TRUE]
          [] h = "visit_tryexcept" ->
            [ops |-> Txt(<<"t", "r", "y", ":", "\n">>)
               \o AddIndent(id, 4)
               \o Loop(n.body, LAMBDA i :
                       CallPrintIndent \o Visit(n.body[i]) \o Txt(<<"\n">>))
               \o AddIndent(id, 0 - 4)
               \o Loop(n.handlers, LAMBDA i :
                       CallPrintIndent \o Visit(n.handlers[i]))
               \o (IF Len(n.orelse) > 0
                   THEN CallPrintIndent \o Txt(<<"e", "l", "s", "e", ":", "\n">>)
                        \o AddIndent(id, 4)
                        \o Loop(n.orelse, LAMBDA i :
                                CallPrintIndent \o Visit(n.orelse[i]) \o Txt(<<"\n">>))
                        \o AddIndent(id, 0 - 4)
                   ELSE <<>>),
             ret |-> TRUE]
          [] h = "visit_tryfinally" ->
            [ops |-> IF Len(n.body) = 1 /\ ast[n.body[1]].kind = "TryExcept"
               THEN Visit(n.body[1]) \o CallPrintIndent \o Txt(<<"f", "i", "n", "a", "l", "l", "y", ":", "\n">>)
                    \o AddIndent(id, 4)
                    \o Loop(n.finalbody, LAMBDA i :
                            CallPrintIndent \o Visit(n.finalbody[i]) \o Txt(<<"\n">>))
                    \o AddIndent(id, 0 - 4)
               ELSE Txt(<<"t", "r", "y", ":", "\n">>)
                    \o AddIndent(id, 4)
                    \o Loop(n.body, LAMBDA i :
                            CallPrintIndent \o Visit(n.body[i]) \o Txt(<<"\n">>))
                    \o AddIndent(id, 0 - 4)
                    \o CallPrintIndent \o Txt(<<"f", "i", "n", "a", "l", "l", "y", ":", "\n">>)
                    \o AddIndent(id, 4)
                    \o Loop(n.finalbody, LAMBDA i :
                            CallPrintIndent \o Visit(n.finalbody[i]) \o Txt(<<"\n">>))
                    \o AddIndent(id, 0 - 4),
             ret |-> TRUE]
          [] h = "visit_tuple" ->
            [ops |-> Txt(<<"(">>)
               \o Loop(n.elts, LAMBDA i : Sep(i, <<",", " ">>) \o Visit(n.elts[i]))
               \o (IF Len(n.elts) = 1 THEN Txt(<<",">>) ELSE <<>>)
               \o Txt(<<")">>),
             ret |-> TRUE]
          [] h = "visit_unaryop" ->
            [ops |-> (IF n.op_type = "Invert" THEN Txt(<<"~">>)
                ELSE IF n.op_type = "Not" THEN Txt(<<"n", "o", "t", " ">>)
                ELSE IF n.op_type = "UAdd" THEN Txt(<<"+">>)
                ELSE IF n.op_type = "USub" THEN Txt(<<"-">>)
                ELSE Fail(FALSE))
               \o Txt(<<"(">>) \o Visit(n.operand) \o Txt(<<")">>),
             ret |-> TRUE]
          [] h = "visit_while" ->
            [ops |-> Txt(<<"w", "h", "i", "l", "e", " ">>) \o Visit(n.test) \o Txt(<<"\n">>)
               \o AddIndent(id, 4)
               \o Loop(n.body, LAMBDA i :
                       CallPrintIndent \o Visit(n.body[i]) \o Txt(<<"\n">>))
               \o AddIndent(id, 0 - 4)
               \o (IF Len(n.orelse) > 0
                   THEN CallPrintIndent \o Txt(<<"e", "l", "s", "e", "\n">>)
                        \o AddIndent(id, 4)
                        \o Loop(n.orelse, LAMBDA i :
                                CallPrintIndent \o Visit(n.orelse[i]) \o Txt(<<"\n">>))
                        \o AddIndent(id, 0 - 4)
                   ELSE <<>>),
             ret |-> TRUE]
          [] h = "visit_with" ->
            [ops |-> Txt(<<"w", "i", "t", "h", " ">>) \o Visit(n.context_expr)
               \o (IF n.optional_vars # NULL
                   THEN Txt(<<" ", "a", "s", " ">>) \o Visit(n.optional_vars) \o Txt(<<":", "\n">>)
                   ELSE <<>>)
               \o AddIndent(id, 4)
               \o Loop(n.body, LAMBDA i :
                       Sep(i, <<"\n">>) \o CallPrintIndent \o Visit(n.body[i]))
               \o AddIndent(id, 0 - 4),
             ret |-> TRUE]
          [] h = "visit_yield" ->
            [ops |-> Txt(<<"y", "i", "e", "l", "d", " ">>) \o (IF n.value # NULL THEN Visit(n.value) ELSE <<>>),
             ret |-> TRUE]
          [] h = "visit_clsattribute" ->
            [ops |-> Visit(n.value) \o Txt(<<":">>) \o Txt(n.attr),
             ret |-> TRUE]

\* The visitor print_ast constructs: an empty stream, indent 0.
NewPrintVisitor ==
    [stream |-> <<>>, indent |-> 0, levels |-> <<>>, trace |-> <<>>,
     aborted |-> FALSE]

\* An entry of the record kept of a rendering: accept entered or left a
\* node, or a handler set indent; with the indent and the length of the
\* stream at that moment.
LevelEvent(ev, id, v) ==
    [ev |-> ev, node |-> id, indent |-> v.indent, pos |-> Len(v.stream)]

\* printIndent: one space per unit of indent.
printIndent(v) ==
    [v EXCEPT !.stream = @ \o [i \in 1..v.indent |-> " "]]

\* F applied to the value of e, which is worked out once.
Let(e, F(_)) == CHOOSE r \in {F(x) : x \in {e}} : TRUE

RECURSIVE Run(_, _, _, _, _)
RECURSIVE ASTPrintVisitor_accept(_, _, _)

\* One step of a handler's body.
Step(o, v, nd) ==
    CASE o[1] = "s" -> [v EXCEPT !.stream = @ \o o[2]]
      [] o[1] = "i" -> printIndent(v)
      [] o[1] = "d" ->
            Let([v EXCEPT !.indent = @ + o[2]], LAMBDA w :
                [w EXCEPT !.levels = Append(@, LevelEvent("set", o[3], w))])
      [] o[1] = "a" -> ASTPrintVisitor_accept(o[2], v, nd)
      [] o[1] = "x" -> IF o[2] /\ nd THEN v ELSE [v EXCEPT !.aborted = TRUE]

\* The steps lo..hi of os in order, the first half and then the second;
\* an abort ends the rendering.
Run(os, lo, hi, v, nd) ==
    IF lo > hi \/ v.aborted THEN v
    ELSE IF lo = hi THEN Step(os[lo], v, nd)
    ELSE Let((lo + hi) \div 2, LAMBDA mid :
             Let(Run(os, lo, mid, v, nd), LAMBDA w :
                 Run(os, mid + 1, hi, w, nd)))

\* A handler's body, step by step.
Exec(os, v, nd) ==
    Let(os, LAMBDA o : Let(v, LAMBDA w : Run(o, 1, Len(o), w, nd)))

\* node->accept(v) with the print visitor: the handler, then, unless it
\* returned true, accept on each child.
ASTPrintVisitor_accept(id, v, nd) ==
    Let(ASTPrintVisitor_visit(id), LAMBDA h :
        Let(AST_accept(ast[id], h.ret), LAMBDA a :
            Let(Exec(h.ops,
                     [v EXCEPT !.levels = Append(@, LevelEvent("enter", id, v)),
                               !.trace = Append(@, VisitEvent(id, a.handler, h.ret))],
                     nd),
                LAMBDA v1 :
                Let(Exec(Cat([i \in 1..Len(a.calls) |-> Visit(a.calls[i])]), v1, nd),
                    LAMBDA v2 :
                    IF v2.aborted THEN v2
                    ELSE [v2 EXCEPT !.levels =
                                        Append(@, LevelEvent("leave", id, v2))]))))

\* print_ast(ast): a new visitor, ast->accept(&v), v.flush().
print_ast(id, nd) == ASTPrintVisitor_accept(id, NewPrintVisitor, nd)

\* ---------------------------------------------------------------------
\* The trees rendered.  Nodes carry the data the printer reads besides
\* their children: names, operator tags, literals.
\* ---------------------------------------------------------------------

\* The operator tags a node of a kind may carry.
PrintOpChoices(kind) ==
    CASE kind \in {"BinOp", "AugAssign", "AugBinOp"} ->
            {"Add", "Sub", "Mult", "Div", "TrueDiv", "FloorDiv", "Mod", "Pow",
             "DivMod", "LShift", "RShift", "BitAnd", "BitOr", "BitXor"}
      [] kind = "BoolOp" -> {"And", "Or"}
      [] kind = "UnaryOp" -> {"Invert", "Not", "UAdd", "USub"}
      [] kind = "Compare" ->
            {"Eq", "NotEq", "Lt", "LtE", "Gt", "GtE", "In", "NotIn", "Is", "IsNot"}
      [] OTHER -> {"Add"}

OpFor(kind, op) ==
    IF op \in PrintOpChoices(kind) THEN op
    ELSE CHOOSE o \in PrintOpChoices(kind) : TRUE

\* The data of a node of a kind, beside its children.
Payload(n, id, op) ==
    CASE n.kind = "alias" -> [name |-> <<"m">>, asname |-> <<"n">>]
      [] n.kind \in {"Attribute", "ClsAttribute"} -> [attr |-> <<"x">>]
      [] n.kind \in {"BinOp", "AugAssign", "AugBinOp", "BoolOp", "UnaryOp"} ->
            [op_type |-> OpFor(n.kind, op)]
      [] n.kind = "Compare" ->
            [ops |-> [i \in 1..Len(n.comparators) |-> OpFor("Compare", op)]]
      [] n.kind = "ClassDef" -> [name |-> <<"C">>]
      [] n.kind = "FunctionDef" -> [name |-> <<"f">>]
      [] n.kind = "Global" -> [names |-> <<<<"g">>, <<"h">>>>]
      [] n.kind = "ImportFrom" -> [module |-> <<"m">>]
      [] n.kind = "Invoke" -> [normal_dest |-> 1, exc_dest |-> 12]
      [] n.kind = "keyword" -> [arg |-> <<"k">>]
      [] n.kind = "LangPrimitive" -> [opcode |-> "NONE"]
      [] n.kind = "Name" -> [id |-> <<<<"a", "b", "c", "d", "e", "f", "g", "h", "i", "j", "k", "l", "m", "n", "o", "p", "q", "r", "s", "t", "u", "v", "w", "x", "y", "z">>[((id - 1) % 26) + 1]>>]
      [] n.kind = "Num" -> [num_type |-> "INT", n_int |-> 7]
      [] n.kind = "Print" -> [nl |-> TRUE]
      [] n.kind = "Str" -> [str_type |-> "STR", str_data |-> <<"s">>]
      [] OTHER -> [kind |-> n.kind]

Decorate(heap, op) ==
    [i \in DOMAIN heap |-> heap[i] @@ Payload(heap[i], i, op)]

\* visit_exec dereferences body without a test: an Exec has a body.
PrintWellFormed(heap) ==
    heap[1].kind = "Exec" => heap[1].body # NULL

DecoratedTrees ==
    UNION {{Decorate(t, op) : op \in PrintOpChoices(t[1].kind)} :
           t \in {u \in Trees : PrintWellFormed(u)}}

\* Trees of nested statements, built from the leaves up.
RECURSIVE TotalLen(_, _)
TotalLen(hs, k) == IF k = 0 THEN 0 ELSE TotalLen(hs, k - 1) + Len(hs[k])

ShiftNode(n, k) ==
    [f \in DOMAIN n |->
        IF f \notin FieldNames(n.kind) THEN n[f]
        ELSE IF FieldType(n.kind, f) = "list"
             THEN [j \in 1..Len(n[f]) |-> n[f][j] + k]
        ELSE IF n[f] = NULL THEN NULL ELSE n[f] + k]

Shift(h, k) == [i \in 1..Len(h) |-> ShiftNode(h[i], k)]

\* A node with the given data whose fields hold the given subtrees: parts
\* is a sequence of [f, hs], the subtrees hs of field f.
Compose(data, parts) ==
    LET hs == Cat([p \in 1..Len(parts) |-> parts[p].hs])
        before(p) == Len(Cat([q \in 1..(p - 1) |-> parts[q].hs]))
        rootOf(g) == 2 + TotalLen(hs, g - 1)
        fieldAt(f) == CHOOSE p \in 1..Len(parts) : parts[p].f = f
        value(f) ==
            LET p == fieldAt(f)
                ids == [j \in 1..Len(parts[p].hs) |-> rootOf(before(p) + j)]
            IN  IF FieldType(data.kind, f) = "list" THEN ids
                ELSE IF Len(ids) = 0 THEN NULL ELSE ids[1]
    IN  <<[f \in DOMAIN data \cup FieldNames(data.kind) |->
              IF f \in DOMAIN data THEN data[f] ELSE value(f)]>>
        \o Cat([g \in 1..Len(hs) |-> Shift(hs[g], 1 + TotalLen(hs, g - 1))])

NameNode(c) == <<[kind |-> "Name", id |-> <<c>>]>>

PassNode == <<[kind |-> "Pass"]>>

IfNode(test, body, orelse) ==
    Compose([kind |-> "If"],
            <<[f |-> "test", hs |-> <<test>>], [f |-> "body", hs |-> body],
              [f |-> "orelse", hs |-> orelse]>>)

FunctionDefNode(body) ==
    Compose([kind |-> "FunctionDef", name |-> <<"f">>],
            <<[f |-> "args",
               hs |-> <<Compose([kind |-> "arguments"],
                                <<[f |-> "args", hs |-> <<>>],
                                  [f |-> "defaults", hs |-> <<>>],
                                  [f |-> "kwarg", hs |-> <<>>],
                                  [f |-> "vararg", hs |-> <<>>]>>)>>],
              [f |-> "body", hs |-> body],
              [f |-> "decorator_list", hs |-> <<>>]>>)

WhileNode(body) ==
    Compose([kind |-> "While"],
            <<[f |-> "test", hs |-> <<NameNode("w")>>],
              [f |-> "body", hs |-> body], [f |-> "orelse", hs |-> <<>>]>>)

TryExceptNode(body) ==
    Compose([kind |-> "TryExcept"],
            <<[f |-> "body", hs |-> body],
              [f |-> "handlers",
               hs |-> <<Compose([kind |-> "ExceptHandler"],
                                <<[f |-> "body", hs |-> <<PassNode>>],
                                  [f |-> "name", hs |-> <<>>],
                                  [f |-> "type", hs |-> <<NameNode("E")>>]>>)>>],
              [f |-> "orelse", hs |-> <<PassNode>>]>>)

TryFinallyNode(body) ==
    Compose([kind |-> "TryFinally"],
            <<[f |-> "body", hs |-> body],
              [f |-> "finalbody", hs |-> <<PassNode>>]>>)

\* If statements: a test, one to MaxLen statements, and an else-clause
\* that is empty, plain statements, or a nested If with or without
\* further statements.
InnerIfs ==
    {IfNode(NameNode("b"), <<PassNode>>, e) :
        e \in {<<>>, <<PassNode>>,
               <<IfNode(NameNode("d"), <<PassNode>>, <<>>)>>}}

IfTrees ==
    {IfNode(NameNode("a"), [j \in 1..k |-> PassNode], e) :
        k \in 1..MaxLen,
        e \in {<<>>, <<PassNode>>, <<PassNode, PassNode>>}
              \cup {<<i>> : i \in InnerIfs}
              \cup {<<i, PassNode>> : i \in InnerIfs}}

\* A statement inside the body of another construct.
Wrapped(inner) ==
    {FunctionDefNode(<<inner>>),
     IfNode(NameNode("c"), <<inner>>, <<>>),
     IfNode(NameNode("c"), <<PassNode>>, <<PassNode, inner>>),
     WhileNode(<<inner>>),
     TryFinallyNode(<<TryExceptNode(<<inner>>)>>)}

StatementTrees ==
    LET once == UNION {Wrapped(t) : t \in IfTrees}
    IN  IfTrees \cup once \cup UNION {Wrapped(t) : t \in once}

PrintTrees == DecoratedTrees \cup StatementTrees

PrintInit ==
    /\ ast \in PrintTrees
    /\ root = 1
    /\ skipNodes = {}
    /\ pc = "idle"
    /\ trace = <<>>
    /\ op_type = "Add"
    /\ called = ""
    /\ result = Returned(NullString)
    /\ success = FALSE
    /\ initialized = FALSE
    /\ strSlot = [s \in SlotNames |-> NullString]
    /\ ndebug = FALSE
    /\ thr = <<>>
    /\ roots = <<>>
    /\ output = <<>>
    /\ output_in = <<>>
    /\ expand_scopes = TRUE
    /\ stream = NewPrintVisitor.stream
    /\ indent = NewPrintVisitor.indent
    /\ levels = <<>>

\* A call of print_ast on the tree.
PrintAst ==
    LET v == print_ast(root, ndebug)
    IN  /\ pc = "idle"
        /\ pc' = IF v.aborted THEN "aborted" ELSE "printed"
        /\ called' = "print_ast"
        /\ stream' = v.stream
        /\ indent' = v.indent
        /\ levels' = v.levels
        /\ trace' = v.trace
        /\ UNCHANGED <<ast, root, skipNodes>>
        /\ UNCHANGED <<op_type, result, success, initialized, strSlot, ndebug>>
        /\ UNCHANGED <<thrVars, flatVars>>

PrintNext == PrintAst

PrintSpec == PrintInit /\ [][PrintNext]_vars

\* The entries of the rendering's record at which accept entered and left
\* a node.
EnterOf(id) ==
    CHOOSE i \in DOMAIN levels : levels[i].ev = "enter" /\ levels[i].node = id

Entered(id) ==
    \E i \in DOMAIN levels : levels[i].ev = "enter" /\ levels[i].node = id

Raises(id) ==
    {i \in DOMAIN levels : /\ levels[i].ev = "set" /\ levels[i].node = id
                           /\ levels[i].indent = levels[i - 1].indent + 4}

Lowers(id) ==
    {i \in DOMAIN levels : /\ levels[i].ev = "set" /\ levels[i].node = id
                           /\ levels[i].indent = levels[i - 1].indent - 4}

\* C18: print indentation is balanced: the level is always a non-negative
\* multiple of 4, it only moves in steps of 4, a handler lowers it as
\* often as it raises it, the level after rendering a node is the level
\* before it, and it is 0 when print_ast finishes.
C18_IndentBalanced ==
    /\ indent >= 0 /\ indent % 4 = 0
    /\ \A i \in DOMAIN levels :
           /\ levels[i].indent >= 0
           /\ levels[i].indent % 4 = 0
           /\ levels[i].ev = "set" => i \in Raises(levels[i].node)
                                           \cup Lowers(levels[i].node)
           /\ levels[i].ev # "set" /\ i > 1
                  => levels[i].indent = levels[i - 1].indent
    /\ pc = "printed" =>
           /\ indent = 0
           /\ \A id \in Nodes :
                  /\ Cardinality(Raises(id)) = Cardinality(Lowers(id))
                  /\ Entered(id) =>
                         \E j \in DOMAIN levels :
                             /\ j > EnterOf(id)
                             /\ levels[j].ev = "leave"
                             /\ levels[j].node = id
                             /\ levels[j].indent = levels[EnterOf(id)].indent

C18_Witness ==
    /\ pc = "printed"
    /\ ast[1].kind = "TryFinally"
    /\ \E i \in DOMAIN levels : levels[i].indent = 12
    /\ \E id \in Nodes : ast[id].kind = "If" /\ Cardinality(Raises(id)) = 2

\* An If with test a and body [pass] whose else-clause is the single If
\* with test b, body [pass] and no else-clause.
IfElifTree ==
    IfNode(NameNode("a"), <<PassNode>>,
           <<IfNode(NameNode("b"), <<PassNode>>, <<>>)>>)

\* C19 as stated: rendering that If at level 0 gives exactly
\* "if a:\n    pass\nelif b:\n    pass".
C19_ExactText ==
    (pc = "printed" /\ ast = IfElifTree)
        => stream = <<"i", "f", " ", "a", ":", "\n", " ", " ", " ", " ", "p", "a", "s", "s", "\n", "e", "l", "i", "f", " ", "b", ":", "\n", " ", " ", " ", " ", "p", "a", "s", "s">>

\* C19: rendering that If at level 0 gives exactly
\* "if a:\n    pass\nelif b:\n    pass\n": the text of the claim followed
\* by the newline that ends the nested body's statement.
C19_TextWithFinalNewline ==
    (pc = "printed" /\ ast = IfElifTree)
        => stream = <<"i", "f", " ", "a", ":", "\n", " ", " ", " ", " ", "p", "a", "s", "s", "\n", "e", "l", "i", "f", " ", "b", ":", "\n", " ", " ", " ", " ", "p", "a", "s", "s", "\n">>

C19_Witness ==
    /\ pc = "printed" /\ ast = IfElifTree
    /\ levels[EnterOf(1)].indent = 0
    /\ Len(stream) > 0

\* C20: an If rendered at any level L whose else-clause is exactly one
\* nested If has its else-branch header on a line that starts with L
\* spaces followed at once by "elif", and the nested If's body is at
\* level L + 4, as the outer body is.
C20_ElifAtAnyLevel ==
    pc = "printed" =>
        \A x \in Nodes :
            (/\ ast[x].kind = "If"
             /\ Entered(x)
             /\ Len(ast[x].orelse) = 1
             /\ ast[ast[x].orelse[1]].kind = "If")
                => LET y == ast[x].orelse[1]
                       L == levels[EnterOf(x)].indent
                       p == levels[EnterOf(y)].pos
                   IN  /\ p >= L + 3
                       /\ SubSeq(stream, p - L - 2, p + 2)
                              = <<"\n">> \o [i \in 1..L |-> " "] \o <<"e", "l", "i", "f">>
                       /\ \A i \in DOMAIN ast[y].body :
                              levels[EnterOf(ast[y].body[i])].indent = L + 4
                       /\ \A i \in DOMAIN ast[x].body :
                              levels[EnterOf(ast[x].body[i])].indent = L + 4

\* ---------------------------------------------------------------------
\* Operator rendering.
\* ---------------------------------------------------------------------

\* The text one rendering of the subtree of a node produces.
TextOf(id) == ASTPrintVisitor_accept(id, NewPrintVisitor, ndebug).stream

\* The text visit_compare puts between and after the operands when every
\* operator is rendered by its display symbol between two spaces.
ComparisonTail(n) ==
    Cat([i \in 1..Len(n.ops) |->
            <<" ">> \o getOpSymbol(n.ops[i]).val \o <<" ">>
                \o TextOf(n.comparators[i])])

\* C21: the printer renders the operator of a BinOp as getOpSymbol(tag),
\* for every binary tag, FloorDiv, TrueDiv and DivMod included; the
\* operator of an augmented assignment as getInplaceOpSymbol(tag); and
\* each operator of a comparison as getOpSymbol(tag) between two spaces.
C21_OperatorsUseResolverSymbols ==
    (pc = "printed" /\ called = "print_ast") =>
        LET n == ast[root]
        IN  /\ n.kind = "BinOp" =>
                stream = TextOf(n.left) \o getOpSymbol(n.op_type).val
                             \o TextOf(n.right)
            /\ n.kind = "AugAssign" =>
                stream = TextOf(n.target) \o getInplaceOpSymbol(n.op_type).val
                             \o TextOf(n.value)
            /\ n.kind = "Compare" =>
                stream = TextOf(n.left) \o ComparisonTail(n)

\* ---------------------------------------------------------------------
\* AST::getStringpool, AST::getBody and AST::getName: a node asked to be
\* read as a scope.  RELEASE_ASSERT(0, ...) aborts in every build.
\* ---------------------------------------------------------------------

\* InternedString(): the name no string was interned for.
NullName == NullString

\* The function-local statics of getName.
lambda_name == <<"<", "l", "a", "m", "b", "d", "a", ">">>
module_name == <<"<", "m", "o", "d", "u", "l", "e", ">">>

getStringpool(n) ==
    CASE n.kind = "Expression" -> Returned(n.interned_strings)
      [] n.kind = "Module" -> Returned(n.interned_strings)
      [] OTHER -> Aborted

\* A faulty getBody whose default returns an empty list of statements.
getBody_defaultEmpty(n) ==
    CASE n.kind = "ClassDef" -> Returned(n.body)
      [] n.kind = "Expression" -> Returned(<<n.body>>)
      [] n.kind = "FunctionDef" -> Returned(n.body)
      [] n.kind = "Module" -> Returned(n.body)
      [] OTHER -> Returned(<<>>)

\* AST_Expression holds one statement, returned as a list of one.
getBody(n) ==
    CASE n.kind = "ClassDef" -> Returned(n.body)
      [] n.kind = "Expression" -> Returned(<<n.body>>)
      [] n.kind = "FunctionDef" -> Returned(n.body)
      [] n.kind = "Module" -> Returned(n.body)
      [] OTHER -> Aborted

getName(n) ==
    CASE n.kind = "ClassDef" -> Returned(n.name)
      [] n.kind = "FunctionDef" ->
            IF n.name # NullName THEN Returned(n.name) ELSE Returned(lambda_name)
      [] n.kind \in {"Module", "Expression", "Suite"} -> Returned(module_name)
      [] OTHER -> Aborted

\* The names and string pools the root of a queried tree may hold.
NameChoices(kind) ==
    CASE kind = "ClassDef" -> {<<"C">>}
      [] kind = "FunctionDef" -> {NullName, <<"f">>}
      [] OTHER -> {NullName}

StringPools == {"pool1", "pool2"}

ScopeData(n, nm, pool) ==
    CASE n.kind \in {"ClassDef", "FunctionDef"} -> [name |-> nm]
      [] n.kind \in {"Module", "Expression"} -> [interned_strings |-> pool]
      [] OTHER -> [kind |-> n.kind]

QueryTrees ==
    UNION {{[i \in DOMAIN t |-> IF i = 1 THEN t[i] @@ ScopeData(t[i], nm, pool)
                                ELSE t[i]] :
               nm \in NameChoices(t[1].kind),
               pool \in IF t[1].kind \in {"Module", "Expression"}
                        THEN StringPools ELSE {"pool1"}} :
           t \in Trees}

QueryInit ==
    /\ ast \in QueryTrees
    /\ root = 1
    /\ skipNodes = {}
    /\ pc = "idle"
    /\ trace = <<>>
    /\ op_type = "Add"
    /\ called = ""
    /\ result = Returned(NullString)
    /\ success = FALSE
    /\ initialized = FALSE
    /\ strSlot = [s \in SlotNames |-> NullString]
    /\ ndebug \in BOOLEAN
    /\ thr = <<>>
    /\ roots = <<>>
    /\ output = <<>>
    /\ output_in = <<>>
    /\ expand_scopes = TRUE
    /\ stream = <<>>
    /\ indent = 0
    /\ levels = <<>>

\* root->getStringpool()
GetStringpool ==
    /\ pc = "idle"
    /\ called' = "getStringpool"
    /\ result' = getStringpool(ast[root])
    /\ pc' = IF result'.aborted THEN "aborted" ELSE "returned"
    /\ UNCHANGED <<ast, root, skipNodes, trace>>
    /\ UNCHANGED <<op_type, success, initialized, strSlot, ndebug>>
    /\ UNCHANGED <<thrVars, flatVars, printVars>>

\* root->getBody()
GetBody ==
    /\ pc = "idle"
    /\ called' = "getBody"
    /\ result' = getBody(ast[root])
    /\ pc' = IF result'.aborted THEN "aborted" ELSE "returned"
    /\ UNCHANGED <<ast, root, skipNodes, trace>>
    /\ UNCHANGED <<op_type, success, initialized, strSlot, ndebug>>
    /\ UNCHANGED <<thrVars, flatVars, printVars>>

\* root->getName()
GetName ==
    /\ pc = "idle"
    /\ called' = "getName"
    /\ result' = getName(ast[root])
    /\ pc' = IF result'.aborted THEN "aborted" ELSE "returned"
    /\ UNCHANGED <<ast, root, skipNodes, trace>>
    /\ UNCHANGED <<op_type, success, initialized, strSlot, ndebug>>
    /\ UNCHANGED <<thrVars, flatVars, printVars>>

QueryNext == GetStringpool \/ GetBody \/ GetName

QuerySpec == QueryInit /\ [][QueryNext]_vars

Queried(fn) == pc \in {"returned", "aborted"} /\ called = fn

HasField(n, f) == f \in DOMAIN n

\* The kinds that hold the name of a scope.
NamedKinds == {"ClassDef", "FunctionDef"}

\* The body of a node as a list of statements: an Expression holds one.
OwnBody(n) == IF n.kind = "Expression" THEN <<n.body>> ELSE n.body

\* C22: getBody on a kind without a body, getStringpool on a node that is
\* neither a Module nor an Expression, and getName on a kind without a
\* name each abort; every call that returns gives the node's own field.
C22_AbortOrOwnField ==
    LET n == ast[root]
    IN  /\ Queried("getBody") =>
            /\ ~HasField(n, "body") => result.aborted
            /\ ~result.aborted =>
                   HasField(n, "body") /\ result.val = OwnBody(n)
        /\ Queried("getStringpool") =>
            /\ n.kind \notin {"Module", "Expression"} => result.aborted
            /\ ~result.aborted =>
                   HasField(n, "interned_strings")
                       /\ result.val = n.interned_strings
        /\ Queried("getName") =>
            /\ n.kind \notin NamedKinds => result.aborted
            /\ ~result.aborted =>
                   n.kind \in NamedKinds /\ result.val = n.name

\* C22, amended: as above for getBody and getStringpool; getName aborts on
\* every kind but ClassDef, FunctionDef, Module, Expression and Suite,
\* returns the own name of a ClassDef and of a named FunctionDef, and
\* returns the fixed names "<lambda>" for a FunctionDef without a name and
\* "<module>" for a Module, an Expression and a Suite.
C22_AbortOrFieldOrFixedName ==
    LET n == ast[root]
    IN  /\ Queried("getBody") =>
            /\ ~HasField(n, "body") => result.aborted
            /\ ~result.aborted =>
                   HasField(n, "body") /\ result.val = OwnBody(n)
            /\ n.kind \in {"ClassDef", "FunctionDef", "Module", "Expression"}
                   => ~result.aborted
        /\ Queried("getStringpool") =>
            /\ n.kind \notin {"Module", "Expression"} <=> result.aborted
            /\ ~result.aborted => result.val = n.interned_strings
        /\ Queried("getName") =>
            /\ result.aborted <=>
                   n.kind \notin {"ClassDef", "FunctionDef", "Module",
                                  "Expression", "Suite"}
            /\ (n.kind \in NamedKinds /\ n.name # NullName) =>
                   result = Returned(n.name)
            /\ (n.kind = "FunctionDef" /\ n.name = NullName) =>
                   result = Returned(<<"<", "l", "a", "m", "b", "d", "a", ">">>)
            /\ n.kind \in {"Module", "Expression", "Suite"} =>
                   result = Returned(<<"<", "m", "o", "d", "u", "l", "e", ">">>)

\* getBody asked of a Pass statement, a kind without a body, aborted.
C22_Witness ==
    /\ Queried("getBody")
    /\ ast[root].kind = "Pass"
    /\ result.aborted

\* ---------------------------------------------------------------------
\* The order of a try/except node's parts.
\* ---------------------------------------------------------------------

\* Every visited node of the subtrees in seq a has its handler call before
\* that of every visited node of the subtrees in seq b.
AllBefore(a, b) ==
    \A i \in DOMAIN a, j \in DOMAIN b :
        \A x \in Subtree(a[i]), y \in Subtree(b[j]) :
            (Visited(x) /\ Visited(y)) => Pos(x) < Pos(y)

\* C23: when accept descends into a try/except node, every body statement
\* is visited, then every handler in list order, then every statement of
\* the else clause: no else statement is visited before a handler.
C23_TryExceptSourceOrder ==
    \A i \in AcceptVisits :
        LET t == ast[trace[i].node]
        IN  (t.kind = "TryExcept" /\ trace[i].ret = FALSE) =>
                /\ \A x \in ChildSet(trace[i].node) : Visited(x) /\ Pos(x) > i
                /\ AllBefore(t.body, t.handlers)
                /\ AllBefore(t.handlers, t.orelse)
                /\ AllBefore(t.body, t.orelse)
                /\ \A k \in 1..(Len(t.handlers) - 1) :
                       AllBefore(<<t.handlers[k]>>, <<t.handlers[k + 1]>>)

\* ---------------------------------------------------------------------
\* The frame of flatten.
\* ---------------------------------------------------------------------

\* C24: a call of flatten leaves what the output vector held in place, in
\* the same positions, puts after it the nodes it would put into an empty
\* vector, and changes neither the tree nor the list of roots.
C24_OnlyAppends ==
    [][(pc = "idle" /\ called' \in {"flatten", "flatten_expr"}) =>
           /\ Len(output') >= Len(output)
           /\ SubSeq(output', 1, Len(output)) = output
           /\ SubSeq(output', Len(output) + 1, Len(output')) =
                  IF called' = "flatten_expr"
                  THEN flatten_expr(root, <<>>, expand_scopes, ndebug).output
                  ELSE flatten(roots, <<>>, expand_scopes, ndebug).output
           /\ (pc' = "flattened" /\ called' = "flatten" /\ roots # <<>>)
                  => Len(output') > Len(output)
           /\ ast' = ast
           /\ roots' = roots /\ root' = root]_vars

\* flatten returned after appending to an output vector that held a node.
C24_Witness ==
    /\ pc = "flattened" /\ called = "flatten"
    /\ output_in # <<>>
    /\ Len(output) > Len(output_in) + 1
    /\ SubSeq(output, 1, Len(output_in)) = output_in

\* ---------------------------------------------------------------------
\* One handler call per node in a rendering.
\* ---------------------------------------------------------------------

\* The handlers of ASTPrintVisitor that return false.
DescendingPrintHandlers ==
    {"visit_expr", "visit_index", "visit_return", "visit_name", "visit_num",
     "visit_str"}

\* The children a handler body renders by itself.
RendersItself(os) == {os[k][2] : k \in {m \in DOMAIN os : os[m][1] = "a"}}

\* C25: in one rendering no node's print handler is called twice; the
\* handlers that return false are visit_expr, visit_index, visit_return,
\* visit_name, visit_num and visit_str, and they render no child, while
\* a handler that renders a child returns true.
C25_EachHandlerOnce ==
    (called = "print_ast" /\ pc \in {"printed", "aborted"}) =>
        /\ \A i, j \in VisitIdx : trace[i].node = trace[j].node => i = j
        /\ \A i \in VisitIdx :
               LET h == ASTPrintVisitor_visit(trace[i].node)
               IN  /\ trace[i].ret = h.ret
                   /\ h.ret = FALSE <=> trace[i].handler \in DescendingPrintHandlers
                   /\ h.ret = FALSE => RendersItself(h.ops) = {}
                   /\ RendersItself(h.ops) # {} => h.ret = TRUE

\* A function definition whose body holds an if with an else clause was
\* rendered in full: the handlers of nested statements rendered children.
C25_Witness ==
    /\ called = "print_ast" /\ pc = "printed"
    /\ ast[root].kind = "FunctionDef"
    /\ \E id \in Nodes : ast[id].kind = "If" /\ Len(ast[id].orelse) > 0
                             /\ Visited(id)
                             /\ \A c \in ChildSet(id) : Visited(c)

\* ---------------------------------------------------------------------
\* getOpName under sequentially consistent interleaving: every store is
\* seen by all threads in program order, so the flag is stored after the
\* slots.
\* ---------------------------------------------------------------------

SeqNext ==
    \/ ThreadCall
    \/ ThreadTest
    \/ ThreadAssign
    \/ ThreadSetInitialized
    \/ ThreadSwitch

SeqSpec == RaceInit /\ [][SeqNext]_vars

\* The call of thread t read initialized = true and went past the block.
SkippedInit(t) == thr[t].pc \in {"switch", "done"} /\ thr[t].next = 1

\* C26: the flag becomes true only when all 25 slots are assigned, a slot
\* once assigned keeps its value through every later assignment, the flag
\* is never reset, and a call that reads the flag as true skips the block
\* and returns a slot that is set.
C26_FlagAfterSlots ==
    [][/\ (~initialized /\ initialized') =>
              /\ Len(SlotOrder) = 25
              /\ \A s \in SlotNames : strSlot[s] # NullString
       /\ \A s \in SlotNames :
              strSlot[s] # NullString => strSlot'[s] = strSlot[s]
       /\ initialized => initialized'
       /\ \A t \in Threads :
              /\ (thr[t].pc = "test" /\ thr'[t].pc # "test" /\ initialized)
                     => thr'[t].pc = "switch" /\ strSlot' = strSlot
              /\ (SkippedInit(t) /\ thr[t].pc = "switch" /\ thr'[t].pc = "done")
                     => /\ thr'[t].ret # NullString
                        /\ thr'[t].ret = StaticStrings(OpNameSlot(thr[t].op))]_vars

\* One thread ran the block, another read the flag as true afterwards and
\* returned the name of the last slot assigned.
C26_Witness ==
    \E t, u \in Threads :
        /\ t # u
        /\ thr[u].next > Len(SlotOrder)
        /\ thr[t].pc = "done" /\ thr[t].next = 1
        /\ thr[t].op = "USub"
        /\ thr[t].ret = strSlot["strUSub"]
        /\ initialized

====
